---- MODULE Spec2Model ----
(***************************************************************************)
(* Model of the Morse element decoder of ProjectSource/                    *)
(* CommandRetrieveService.c (module MorseElementsService): the flat state  *)
(* machine RunMorseElementsSM, its calibration routine TestCalibration,    *)
(* the classifiers CharacterizePulse and CharacterizeSpace and the event   *)
(* checker CheckMorseEvents, run on top of a FIFO, run-to-completion event *)
(* queue.                                                                  *)
(***************************************************************************)
EXTENDS Integers, Sequences, FiniteSets, TLC

VARIABLES
  CurrentState,     \* static MorseElementsState_t CurrentState
  TimeOfLastRise,   \* uint16_t TimeOfLastRise
  TimeOfLastFall,   \* uint16_t TimeOfLastFall
  LengthOfDot,      \* uint16_t LengthOfDot
  FirstDelta,       \* static uint16_t FirstDelta
  LastInputState,   \* static uint8_t LastInputState
  ReturnVal,        \* what the last CheckMorseEvents call returned
  queue,            \* the service's event queue (ES_PostToService / dispatch)
  QueueSize,        \* how many events the service's queue is configured to hold
  LossLimit,        \* how many edges the signal source may produce while the
                    \* queue is full
  printed,          \* what the last RunMorseElementsSM call wrote with DB_printf
  trapped,          \* the CPU took the divide-by-zero trap and runs no more code
  Time,             \* ES_Timer_GetTime() at the last edge CheckMorseEvents saw
  PulseWidths,      \* widths of the pulses the signal source may send
  GapWidths,        \* widths of the gaps the signal source may send
  edgesLeft,        \* edges the signal source may still produce
  resetsLeft,       \* button presses that may still arrive
  convergedSinceReset, \* history: TestCalibration converged since construction
                       \* or since the last Reset that took effect
  twin,             \* history: a freshly started machine fed the edges that
                    \* were processed since the last Reset was processed
  transcript,       \* history: the events processed and the lines printed
                    \* since the start, while recording
  written,          \* history: which of TimeOfLastRise and TimeOfLastFall an
                    \* edge event has been stored in since construction
  charGapSeen,      \* history: a gap was classified as an end of character
                    \* since calibration last completed or was last reset
  edgesLost,        \* history: how many edges CheckMorseEvents posted to a
                    \* full queue, which dropped them
  MainLogicState,   \* static MainLogicState_t CurrentState of MainLogicFSM.c
  MotorCommand,     \* the arguments of the last MotorCommandWrapper call
  ActiveTimers,     \* the framework timers started and not yet expired
  BeaconInputPin,   \* what ReadBeaconInputPin() returns
  mainQueue,        \* the main logic FSM's event queue
  issued,           \* history: the motor commands the last RunMainLogicFSM
                    \* call issued
  leftOver,         \* history: whether the running SIMPLE_MOVE_TIMER, and how
                    \* many of the queued SIMPLE_MOVE_TIMER timeouts, belong
                    \* to a move that has already ended
  TMR3,             \* the 16-bit Timer3 count
  T3IF,             \* IFS0bits.T3IF: a Timer3 rollover is pending
  IC1IF,            \* IFS0bits.IC1IF: an input capture is pending
  IC1BUF,           \* the input capture buffer: the captured values not yet read
  edgeArmed,        \* Timer3 has counted on since the last capture
  intsEnabled,      \* the CPU's global interrupt enable
  icPC,             \* where InputCaptureISR is ("idle": not being served)
  t3PC,             \* where Timer3ISR is ("idle": not being served)
  capturedTimer16,  \* uint16_t capturedTimer16 of InputCaptureISR
  RolloverCounter,  \* static volatile uint16_t RolloverCounter
  CapturedTime,     \* static volatile uint32_t CapturedTime
  LastCapturedTime, \* static uint32_t LastCapturedTime
  SmoothedTimeLapse, \* static uint32_t SmoothedTimeLapse
  FirstSample,      \* static bool FirstSample
  LEDPattern,       \* the pattern last written with WriteLEDPattern
  lastLapse,        \* history: timeLapse of the last RunEncoderService call
                    \* that computed one (NoLapse: none yet)
  encQueue,         \* the encoder service's event queue; each event carries,
                    \* as history, the CapturedTime of the capture that posted it
  flagsRaised,      \* history: how often T3IF went from clear to set
  capturesTaken,    \* how many captures the run has taken
  initPC,           \* where InitEncoderService is ("done": it has returned)
  printTimer,       \* PRINT_RPM_TIMER is running
  encPrinted,       \* what the last RunEncoderService call wrote with DB_printf
  RB8,              \* PORTBbits.RB8, the direction input
  LastDirState,     \* static uint8_t LastDirState of Check4DirectionChange
  DirReturnVal,     \* what the last Check4DirectionChange call returned
  dirPosted,        \* how many ES_DIR_CHANGE events have been posted
  lastSample,       \* history: the input level the previous call of
                    \* Check4DirectionChange read (-1: no call yet)
  dirCalls,         \* how many calls of Check4DirectionChange the run has made
  dirPrinted,       \* what the last Check4DirectionChange call wrote with DB_printf
  NewKey,           \* the key waiting in the serial port (NoKey: none)
  KeyReturnVal      \* what the last Check4Keystroke call returned

(* The decoder's variables other than its queue and the CPU's trap *)
morseKept == <<CurrentState, TimeOfLastRise, TimeOfLastFall, LengthOfDot, FirstDelta,
               LastInputState, printed, Time, PulseWidths, GapWidths,
               edgesLeft, resetsLeft, convergedSinceReset, twin, transcript, written,
               charGapSeen, edgesLost, ReturnVal, QueueSize, LossLimit>>

morseVars == <<morseKept, queue, trapped>>

(* The main logic FSM's variables other than its queue *)
mainKept == <<MainLogicState, MotorCommand, ActiveTimers, BeaconInputPin, issued, leftOver>>

mainVars == <<mainKept, mainQueue>>

(* The encoder service's variables other than its queue *)
encKept == <<TMR3, T3IF, IC1IF, IC1BUF, edgeArmed, intsEnabled, icPC, t3PC, capturedTimer16,
             RolloverCounter, CapturedTime, LastCapturedTime, SmoothedTimeLapse, FirstSample,
             LEDPattern, lastLapse, flagsRaised, capturesTaken, initPC, printTimer,
             encPrinted>>

encVars == <<encKept, encQueue>>

dirVars == <<RB8, LastDirState, DirReturnVal, dirPosted, lastSample, dirCalls, dirPrinted,
             NewKey, KeyReturnVal>>

vars == <<morseVars, mainVars, encVars, dirVars>>

-----------------------------------------------------------------------------
(* Bounds of the model *)

MaxEdges == 6
MaxResets == 1
MaxQueue == 3

(* How many edges the signal source may produce while the queue is full *)
MaxLost == 1
MaxCalEdges == 6
MaxSample == 12
MaxWidth == 700
MaxClassifyEdges == 2
MaxWrapLead == 24
MaxTrainEdges == 6

MaxMainQueue == 2
MaxAlignQueue == 3
MaxRollovers == 1
MaxCaptures == 2
(* How many events the encoder service's queue holds *)
MaxEncQueue == 4

MaxDirCalls == 10

MaxStaleEdges == 10

MaxStaleQueue == 5

(* uint16_t: every timestamp and width is kept modulo 2^16 *)
Modulus == 65536

(* Widths the signal source uses in the general specification: 0 is an    *)
(* edge pair inside one timer tick.                                        *)
Widths == {0, 30, 100, 300}

(* The timer value when the first edge may arrive: chosen so that the      *)
(* 16-bit timer wraps during the run.                                      *)
StartTime == Modulus - 100

-----------------------------------------------------------------------------
(* Events *)

EventTypes == {"ES_INIT", "ES_RISING_EDGE", "ES_FALLING_EDGE",
               "ES_CALIBRATION_COMPLETE", "ES_EOC_DETECTED", "ES_EOW_DETECTED",
               "ES_DB_BUTTON_DOWN", "ES_DIR_CHANGE", "ES_NEW_KEY"}

Event(type, param) == [EventType |-> type, EventParam |-> param]

(* An event of which the code assigns the type only: EventParam keeps      *)
(* whatever the stack held, any 16-bit value, so the record carries no     *)
(* such field and nothing can depend on one.                               *)
EventOfType(type) == [EventType |-> type]

(* The states of MorseElementsState_t *)
MorseElementsState_t == {"InitMorseElements", "CalWaitForRise", "CalWaitForFall",
                         "EOC_WaitRise", "EOC_WaitFall", "DecodeWaitFall",
                         "DecodeWaitRise"}

(* The subtraction done in unbounded integers *)
Sub16_Plain(a, b) == a - b

(* uint16_t x = a - b *)
Sub16(a, b) == (a - b + Modulus) % Modulus

(* The module's data as one record *)
Machine == [CurrentState |-> CurrentState, TimeOfLastRise |-> TimeOfLastRise,
            TimeOfLastFall |-> TimeOfLastFall, LengthOfDot |-> LengthOfDot,
            FirstDelta |-> FirstDelta]

(* What one call produced: the module's data afterwards, the events posted *)
(* in order, the DB_printf output in order, and whether the CPU trapped.   *)
Outcome(m, posts, prints) == [m |-> m, posts |-> posts, prints |-> prints, trap |-> FALSE]

Trap(m) == [m |-> m, posts |-> <<>>, prints |-> <<>>, trap |-> TRUE]

(* Integer division n / d of non-negative ints. Division by zero is        *)
(* undefined behaviour: the build either traps or yields some value; the   *)
(* values stand for the three ranges the callers compare against.          *)
DivZeroQuotients == {-1, 100, 1000}

Quotients(n, d) == IF d = 0 THEN DivZeroQuotients ELSE {n \div d}

-----------------------------------------------------------------------------
(* TestCalibration *)

(* The first threshold taken as 333 instead of 33.33 *)
CalFirstIsDot_Scaled(q, first) == q <= 333 /\ first # 0

(* The first threshold widened from 33 to 40 *)
CalFirstIsDot_Wide(q, first) == q <= 40 /\ first # 0

CalFirstIsDot(q, first) == q <= 33 /\ first # 0

(* The second threshold made exclusive *)
CalSecondIsDot_Strict(q, second) == q > 300 /\ second # 0

(* The second threshold without its guard against a zero sample *)
CalSecondIsDot_Unguarded(q, second) == q >= 300

(* The second branch taken from 294% up *)
CalSecondIsDot_Lenient(q, second) == q >= 294 /\ second # 0

CalSecondIsDot(q, second) == q >= 300 /\ second # 0

CalibrationComplete == EventOfType("ES_CALIBRATION_COMPLETE")

TestCalibration(m) ==
  LET DeltaTime == Sub16(m.TimeOfLastFall, m.TimeOfLastRise) IN
  IF m.FirstDelta = 0
  THEN {Outcome([m EXCEPT !.FirstDelta = DeltaTime], <<>>, <<>>)}
  ELSE LET SecondDelta == DeltaTime IN
       (IF SecondDelta = 0 THEN {Trap(m)} ELSE {})
       \cup
       { IF CalFirstIsDot(q[1], m.FirstDelta)
         THEN Outcome([m EXCEPT !.LengthOfDot = m.FirstDelta],
                      <<CalibrationComplete>>, <<>>)
         ELSE IF CalSecondIsDot(q[2], SecondDelta)
         THEN Outcome([m EXCEPT !.LengthOfDot = SecondDelta],
                      <<CalibrationComplete>>, <<>>)
         ELSE Outcome([m EXCEPT !.FirstDelta = SecondDelta], <<>>, <<>>)
         : q \in Quotients(100 * m.FirstDelta, SecondDelta)
                 \X Quotients(100 * m.FirstDelta, SecondDelta) }

-----------------------------------------------------------------------------
(* CharacterizePulse (built with CHAR_TEST: the result is printed) *)

(* The dot threshold made exclusive *)
PulseIsDot_Strict(q) == q < 150

PulseIsDot(q) == q <= 150

PulseIsDash(q) == q >= 250

CharacterizePulse(m) ==
  LET LastPulseWidth == Sub16(m.TimeOfLastFall, m.TimeOfLastRise) IN
  (IF m.LengthOfDot = 0 THEN {Trap(m)} ELSE {})
  \cup
  { IF PulseIsDot(q[1]) THEN Outcome(m, <<>>, <<".">>)
    ELSE IF PulseIsDash(q[2]) THEN Outcome(m, <<>>, <<"-">>)
    ELSE Outcome(m, <<>>, <<"X">>)
    : q \in Quotients(100 * LastPulseWidth, m.LengthOfDot)
            \X Quotients(100 * LastPulseWidth, m.LengthOfDot) }

-----------------------------------------------------------------------------
(* CharacterizeSpace (built with CHAR_TEST) *)

(* The dot-space threshold made exclusive *)
SpaceIsDotSpace_Strict(q) == q < 150

SpaceIsDotSpace(q) == q <= 150

(* The character-space window with its lower bound made exclusive at 300 *)
SpaceIsCharSpace_Above300(qa, qb) == qa > 300 /\ qb <= 350

SpaceIsCharSpace(qa, qb) == qa >= 250 /\ qb <= 350

(* The word-space threshold made exclusive *)
SpaceIsWordSpace_Strict(q) == q > 650

SpaceIsWordSpace(q) == q >= 650

EOCDetected == EventOfType("ES_EOC_DETECTED")

EOWDetected == EventOfType("ES_EOW_DETECTED")

CharacterizeSpace(m) ==
  LET LastSpaceWidth == Sub16(m.TimeOfLastRise, m.TimeOfLastFall) IN
  (IF m.LengthOfDot = 0 THEN {Trap(m)} ELSE {})
  \cup
  { IF SpaceIsDotSpace(q[1]) THEN Outcome(m, <<>>, <<>>)
    ELSE IF SpaceIsCharSpace(q[2], q[3]) THEN Outcome(m, <<EOCDetected>>, <<" ">>)
    ELSE IF SpaceIsWordSpace(q[4]) THEN Outcome(m, <<EOWDetected>>, <<"   ">>)
    ELSE Outcome(m, <<>>, <<"?">>)
    : q \in Quotients(100 * LastSpaceWidth, m.LengthOfDot)
            \X Quotients(100 * LastSpaceWidth, m.LengthOfDot)
            \X Quotients(100 * LastSpaceWidth, m.LengthOfDot)
            \X Quotients(100 * LastSpaceWidth, m.LengthOfDot) }

-----------------------------------------------------------------------------
(* RunMorseElementsSM *)

(* The states whose switch has a case for ES_DB_BUTTON_DOWN *)
HandlesButtonDown(state) ==
  state \in {"EOC_WaitRise", "EOC_WaitFall", "DecodeWaitRise", "DecodeWaitFall"}

(* The button case clearing the stored edge times as well *)
OnButtonDown_ClearsEdgeMemory(m) ==
  [m EXCEPT !.CurrentState = "CalWaitForRise", !.FirstDelta = 0,
            !.TimeOfLastRise = 0, !.TimeOfLastFall = 0]

(* case ES_DB_BUTTON_DOWN: NextState = CalWaitForRise; FirstDelta = 0 *)
OnButtonDown(m) == [m EXCEPT !.CurrentState = "CalWaitForRise", !.FirstDelta = 0]

(* The same with a bad pulse leaving the machine in the state it was in *)
Finish_BadPulseStays(outs, next, before) ==
  { IF o.trap THEN [o EXCEPT !.prints = before]
    ELSE [o EXCEPT !.m.CurrentState = IF o.prints = <<"X">> THEN o.m.CurrentState ELSE next,
                   !.prints = before \o o.prints] : o \in outs }

(* A called routine's outcomes, with NextState stored into CurrentState at *)
(* the end of the run function and the output written before the call     *)
(* put in front.                                                           *)
Finish(outs, next, before) ==
  { IF o.trap THEN [o EXCEPT !.prints = before]
    ELSE [o EXCEPT !.m.CurrentState = next, !.prints = before \o o.prints] : o \in outs }

(* An ignored event that nevertheless clears the calibration progress *)
Ignored_ClearsDelta(m) == {Outcome([m EXCEPT !.FirstDelta = 0], <<>>, <<>>)}

(* default: ; -- no case for the event in the current state's switch *)
Ignored_Restarts(m) == {Outcome([m EXCEPT !.CurrentState = "InitMorseElements"], <<>>, <<>>)}

Ignored(m) == {Outcome(m, <<>>, <<>>)}

(* The time of the event taken to be the timer's reading when the event   *)
(* is processed                                                            *)
EdgeTime_AtDispatch(ThisEvent) == Time

(* The time of an edge: ThisEvent.EventParam, as posted by CheckMorseEvents *)
EdgeTime(ThisEvent) == ThisEvent.EventParam

RunMorseElementsSM(m, ThisEvent) ==
  LET type == ThisEvent.EventType
      Ignore == Ignored(m)
      Goto(next) == {Outcome([m EXCEPT !.CurrentState = next], <<>>, <<>>)}
  IN
  CASE m.CurrentState = "InitMorseElements" ->
         IF type = "ES_INIT" THEN Goto("CalWaitForRise") ELSE Ignore
    [] m.CurrentState = "CalWaitForRise" ->
         IF type = "ES_RISING_EDGE"
         THEN {Outcome([m EXCEPT !.TimeOfLastRise = EdgeTime(ThisEvent),
                                 !.CurrentState = "CalWaitForFall"], <<>>, <<"R">>)}
         ELSE IF type = "ES_CALIBRATION_COMPLETE"
         THEN {Outcome([m EXCEPT !.CurrentState = "EOC_WaitRise"], <<>>,
                       <<"Length of dot calibrated">>)}
         ELSE Ignore
    [] m.CurrentState = "CalWaitForFall" ->
         IF type = "ES_FALLING_EDGE"
         THEN Finish(TestCalibration([m EXCEPT !.TimeOfLastFall = EdgeTime(ThisEvent)]),
                     "CalWaitForRise", <<"F">>)
         ELSE Ignore
    [] m.CurrentState = "EOC_WaitRise" ->
         IF type = "ES_RISING_EDGE"
         THEN Finish(CharacterizeSpace([m EXCEPT !.TimeOfLastRise = EdgeTime(ThisEvent)]),
                     "EOC_WaitFall", <<>>)
         ELSE IF type = "ES_DB_BUTTON_DOWN" THEN {Outcome(OnButtonDown(m), <<>>, <<>>)}
         ELSE Ignore
    [] m.CurrentState = "EOC_WaitFall" ->
         IF type = "ES_FALLING_EDGE"
         THEN {Outcome([m EXCEPT !.TimeOfLastFall = EdgeTime(ThisEvent),
                                 !.CurrentState = "EOC_WaitRise"], <<>>, <<>>)}
         ELSE IF type = "ES_DB_BUTTON_DOWN" THEN {Outcome(OnButtonDown(m), <<>>, <<>>)}
         ELSE IF type = "ES_EOC_DETECTED" THEN Goto("DecodeWaitFall")
         ELSE Ignore
    [] m.CurrentState = "DecodeWaitRise" ->
         IF type = "ES_RISING_EDGE"
         THEN Finish(CharacterizeSpace([m EXCEPT !.TimeOfLastRise = EdgeTime(ThisEvent)]),
                     "DecodeWaitFall", <<>>)
         ELSE IF type = "ES_DB_BUTTON_DOWN" THEN {Outcome(OnButtonDown(m), <<>>, <<>>)}
         ELSE Ignore
    [] m.CurrentState = "DecodeWaitFall" ->
         IF type = "ES_FALLING_EDGE"
         THEN Finish(CharacterizePulse([m EXCEPT !.TimeOfLastFall = EdgeTime(ThisEvent)]),
                     "DecodeWaitRise", <<>>)
         ELSE IF type = "ES_DB_BUTTON_DOWN" THEN {Outcome(OnButtonDown(m), <<>>, <<>>)}
         ELSE Ignore
    [] OTHER -> Ignore

-----------------------------------------------------------------------------
(* The actions *)

(* ES_PostToService(MyPriority, ThisEvent): the event joins the queue's     *)
(* tail; with the queue full the post fails and the event is lost. No     *)
(* caller in the source looks at the returned flag.                        *)
PostMorseElementsService(q, ThisEvent) ==
  IF Len(q) < QueueSize THEN Append(q, ThisEvent) ELSE q

(* CheckMorseEvents forgetting the level it saw *)
CheckMorseEvents_NoLatch(level, now) ==
  /\ ~trapped
  /\ level # LastInputState
  /\ edgesLeft > 0
  /\ queue' = PostMorseElementsService(queue,
                Event(IF level = 1 THEN "ES_RISING_EDGE" ELSE "ES_FALLING_EDGE", now))
  /\ Time' = now
  /\ edgesLeft' = edgesLeft - 1
  /\ edgesLost' = edgesLost + (IF Len(queue) < QueueSize THEN 0 ELSE 1)
  /\ ReturnVal' = TRUE
  /\ UNCHANGED <<CurrentState, TimeOfLastRise, TimeOfLastFall, LengthOfDot, FirstDelta,
                 LastInputState, printed, trapped, QueueSize, LossLimit, PulseWidths, GapWidths, resetsLeft,
                 convergedSinceReset, twin, transcript, written, charGapSeen, mainVars, encVars, dirVars>>

(* CheckMorseEvents sampling the input line at `level' when the timer      *)
(* reads `now'.                                                            *)
CheckMorseEvents(level, now) ==
  /\ ~trapped
  /\ IF level # LastInputState
     THEN /\ edgesLeft > 0
          /\ queue' = PostMorseElementsService(queue,
                        Event(IF level = 1 THEN "ES_RISING_EDGE" ELSE "ES_FALLING_EDGE", now))
          /\ Time' = now
          /\ edgesLeft' = edgesLeft - 1
          /\ edgesLost' = edgesLost + (IF Len(queue) < QueueSize THEN 0 ELSE 1)
     ELSE UNCHANGED <<queue, Time, edgesLeft, edgesLost>>
  /\ ReturnVal' = (level # LastInputState)
  /\ LastInputState' = level
  /\ UNCHANGED <<CurrentState, TimeOfLastRise, TimeOfLastFall, LengthOfDot, FirstDelta,
                 printed, trapped, QueueSize, LossLimit, PulseWidths, GapWidths, resetsLeft,
                 convergedSinceReset, twin, transcript, written, charGapSeen, mainVars, encVars, dirVars>>

(* The line changes level d ticks after its last change and the checker    *)
(* sees it: a falling edge ends a pulse, a rising edge ends a gap.         *)
SignalEdge ==
  \E level \in {0, 1} :
    \E d \in (IF level = 0 THEN PulseWidths ELSE GapWidths) :
      /\ level # LastInputState
      /\ (Len(queue) >= QueueSize) => edgesLost < LossLimit
      /\ CheckMorseEvents(level, (Time + d) % Modulus)

(* CheckMorseEvents called with the line at either level, changed since    *)
(* the last call or not                                                    *)
Poll ==
  \E level \in {0, 1} :
    \E d \in (IF level = 0 THEN PulseWidths ELSE GapWidths) :
      /\ (level # LastInputState /\ Len(queue) >= QueueSize) => edgesLost < LossLimit
      /\ CheckMorseEvents(level, (Time + d) % Modulus)

(* The debounced button: ES_DB_BUTTON_DOWN is posted to the service *)
ButtonDown ==
  /\ ~trapped
  /\ resetsLeft > 0
  /\ Len(queue) < QueueSize
  /\ queue' = PostMorseElementsService(queue, Event("ES_DB_BUTTON_DOWN", 0))
  /\ resetsLeft' = resetsLeft - 1
  /\ UNCHANGED <<CurrentState, TimeOfLastRise, TimeOfLastFall, LengthOfDot, FirstDelta,
                 LastInputState, ReturnVal, printed, trapped, Time, QueueSize, LossLimit, PulseWidths, GapWidths,
                 edgesLeft, convergedSinceReset, twin, transcript, written, charGapSeen, edgesLost,
                 mainVars, encVars, dirVars>>

(* The machine as InitMorseElementsService leaves it *)
ConstructedMachine ==
  [CurrentState |-> "InitMorseElements", TimeOfLastRise |-> 0, TimeOfLastFall |-> 0,
   LengthOfDot |-> 0, FirstDelta |-> 0]

(* The freshly constructed machine after its start event ES_INIT *)
FreshMachine ==
  (CHOOSE o \in RunMorseElementsSM(ConstructedMachine, EventOfType("ES_INIT")) : TRUE).m

EdgeTypes == {"ES_RISING_EDGE", "ES_FALLING_EDGE"}

Posts(o, e) == e \in {o.posts[i] : i \in 1..Len(o.posts)}

(* History of the comparison with a fresh machine. `on': a Reset has been  *)
(* processed, in whatever state, and the fresh machine m is being fed the  *)
(* same edges; `complete': the fresh machine has posted                    *)
(* CalibrationComplete. Events other than edges are not fed to the fresh   *)
(* machine and leave the comparison running.                               *)
TwinOff == [on |-> FALSE, complete |-> FALSE, m |-> FreshMachine]

(* The runs of the fresh machine on the same event. When it is in the      *)
(* state of the machine itself with the same first sample and edge times,  *)
(* it divides the operands the run o divided and an undefined division has *)
(* the outcome it had in o; otherwise every outcome of a division by zero  *)
(* is possible, the trap included.                                         *)
TwinRun(ev, o) ==
  LET outs == RunMorseElementsSM(twin.m, ev)
      same == {t \in outs : t.posts = o.posts /\ t.trap = o.trap
                               /\ t.m.FirstDelta = o.m.FirstDelta}
  IN IF /\ twin.m.CurrentState = CurrentState
        /\ twin.m.FirstDelta = FirstDelta
        /\ twin.m.TimeOfLastRise = TimeOfLastRise
        /\ twin.m.TimeOfLastFall = TimeOfLastFall
        /\ same # {}
     THEN same
     ELSE outs

(* The comparison after the machine's run o on ev, one record for each run *)
(* the fresh machine can make; a trap in either run ends the comparison.   *)
TwinAfter(ev, o) ==
  IF ev.EventType = "ES_DB_BUTTON_DOWN"
  THEN {[on |-> TRUE, complete |-> FALSE, m |-> FreshMachine]}
  ELSE IF ~twin.on \/ twin.complete THEN {twin}
  ELSE IF ev.EventType \in EdgeTypes
  THEN { IF t.trap \/ o.trap THEN TwinOff
         ELSE IF Posts(o, CalibrationComplete) # Posts(t, CalibrationComplete) THEN TwinOff
         ELSE [twin EXCEPT !.m = t.m, !.complete = Posts(t, CalibrationComplete)]
         : t \in TwinRun(ev, o) }
  ELSE {twin}

(* Nothing is recorded *)
TranscriptOff == [recording |-> FALSE, events |-> <<>>, text |-> <<>>]

(* The record of the run o of RunMorseElementsSM on the event ev: the      *)
(* event joins the events processed and what the run printed joins the     *)
(* text.                                                                   *)
TranscriptAfter(ev, o) ==
  IF transcript.recording
  THEN [transcript EXCEPT !.events = Append(@, ev), !.text = @ \o o.prints]
  ELSE transcript

(* The states whose switch has a case for ES_RISING_EDGE, for ES_FALLING_EDGE *)
RiseStates == {"CalWaitForRise", "EOC_WaitRise", "DecodeWaitRise"}

FallStates == {"CalWaitForFall", "EOC_WaitFall", "DecodeWaitFall"}

NothingWritten == [rise |-> FALSE, fall |-> FALSE]

BothWritten == [rise |-> TRUE, fall |-> TRUE]

(* Which stored edge times have been assigned once ev has been processed *)
WrittenAfter(ev) ==
  [rise |-> written.rise \/ (ev.EventType = "ES_RISING_EDGE" /\ CurrentState \in RiseStates),
   fall |-> written.fall \/ (ev.EventType = "ES_FALLING_EDGE" /\ CurrentState \in FallStates)]

(* Whether a gap has been classified as an end of character since the      *)
(* machine last entered EOC_WaitRise from calibration or last took a Reset *)
CharGapSeenAfter(ev, o) ==
  IF \/ ev.EventType = "ES_DB_BUTTON_DOWN" /\ HandlesButtonDown(CurrentState)
     \/ ev.EventType = "ES_CALIBRATION_COMPLETE" /\ CurrentState = "CalWaitForRise"
  THEN FALSE
  ELSE IF ev.EventType = "ES_RISING_EDGE" /\ Posts(o, EOCDetected)
  THEN TRUE
  ELSE charGapSeen

(* The framework takes the event at the head of the queue and runs the     *)
(* service on it to completion; events the service posts join the tail.    *)
Dispatch ==
  /\ ~trapped
  /\ queue # <<>>
  /\ \E o \in RunMorseElementsSM(Machine, Head(queue)) :
       /\ CurrentState' = o.m.CurrentState
       /\ TimeOfLastRise' = o.m.TimeOfLastRise
       /\ TimeOfLastFall' = o.m.TimeOfLastFall
       /\ LengthOfDot' = o.m.LengthOfDot
       /\ FirstDelta' = o.m.FirstDelta
       /\ queue' = Tail(queue) \o o.posts
       /\ printed' = o.prints
       /\ trapped' = o.trap
       /\ convergedSinceReset' =
            IF Head(queue).EventType = "ES_DB_BUTTON_DOWN" /\ HandlesButtonDown(CurrentState)
            THEN FALSE
            ELSE IF Posts(o, CalibrationComplete)
            THEN TRUE
            ELSE convergedSinceReset
       /\ twin' \in TwinAfter(Head(queue), o)
       /\ transcript' = TranscriptAfter(Head(queue), o)
       /\ written' = WrittenAfter(Head(queue))
       /\ charGapSeen' = CharGapSeenAfter(Head(queue), o)
  /\ UNCHANGED <<LastInputState, ReturnVal, Time, QueueSize, LossLimit, PulseWidths, GapWidths, edgesLeft,
                 resetsLeft, edgesLost, mainVars, encVars, dirVars>>

-----------------------------------------------------------------------------
(* The main logic state machine (MainLogicFSM.c) *)

MainLogicState_t == {"Stopped", "SimpleMoving", "SearchingForTape", "AligningWithBeacon"}

(* Command_t *)
CMD_STOP == 0

CMD_ROTATE_CW_90 == 2

CMD_ROTATE_CW_45 == 3

CMD_ROTATE_CCW_90 == 4

CMD_ROTATE_CCW_45 == 5

CMD_DRIVE_FWD_HALF == 8

CMD_DRIVE_FWD_FULL == 9

CMD_DRIVE_REV_HALF == 16

CMD_DRIVE_REV_FULL == 17

CMD_ALIGN_BEACON == 32

CMD_SEARCH_TAPE == 64

Command_t ==
  {CMD_STOP, CMD_ROTATE_CW_90, CMD_ROTATE_CW_45, CMD_ROTATE_CCW_90, CMD_ROTATE_CCW_45,
   CMD_DRIVE_FWD_HALF, CMD_DRIVE_FWD_FULL, CMD_DRIVE_REV_HALF, CMD_DRIVE_REV_FULL,
   CMD_ALIGN_BEACON, CMD_SEARCH_TAPE}

(* A command byte that is no Command_t value: the default case of the switch *)
UnlistedCommand == 1

CommandBytes == Command_t \cup {UnlistedCommand}

MainTimers == {"SIMPLE_MOVE_TIMER", "TAPE_SEARCH_TIMER", "BEACON_ALIGN_TIMER"}

(* The arguments of a MotorCommandWrapper call *)
Motor(left, right, leftDir, rightDir) ==
  [left |-> left, right |-> right, leftDir |-> leftDir, rightDir |-> rightDir]

(* MotorCommandWrapper(0, 0, FORWARD, FORWARD) *)
StopCommand == Motor("0", "0", "FORWARD", "FORWARD")

(* The module's state while RunMainLogicFSM runs, with the events the call *)
(* has posted and the motor commands it has issued so far                  *)
MainMachine ==
  [CurrentState |-> MainLogicState, MotorCommand |-> MotorCommand,
   ActiveTimers |-> ActiveTimers, posts |-> <<>>, issued |-> <<>>, started |-> {}]

MotorCommandWrapper_Silent(s, left, right, leftDir, rightDir) ==
  [s EXCEPT !.MotorCommand = Motor(left, right, leftDir, rightDir)]

MotorCommandWrapper(s, left, right, leftDir, rightDir) ==
  [s EXCEPT !.MotorCommand = Motor(left, right, leftDir, rightDir),
            !.issued = Append(@, Motor(left, right, leftDir, rightDir))]

(* ES_Timer_InitTimer(timer, ms): the timer runs, from now, until it expires *)
ES_Timer_InitTimer(s, timer) ==
  [s EXCEPT !.ActiveTimers = @ \cup {timer}, !.started = @ \cup {timer}]

RotateCW90(s) ==
  ES_Timer_InitTimer(MotorCommandWrapper(s, "FullSpeed", "FullSpeed", "FORWARD", "REVERSE"),
                     "SIMPLE_MOVE_TIMER")

RotateCW45(s) ==
  ES_Timer_InitTimer(MotorCommandWrapper(s, "FullSpeed", "FullSpeed", "FORWARD", "REVERSE"),
                     "SIMPLE_MOVE_TIMER")

RotateCCW90(s) ==
  ES_Timer_InitTimer(MotorCommandWrapper(s, "FullSpeed", "FullSpeed", "REVERSE", "FORWARD"),
                     "SIMPLE_MOVE_TIMER")

RotateCCW45(s) ==
  ES_Timer_InitTimer(MotorCommandWrapper(s, "FullSpeed", "FullSpeed", "REVERSE", "FORWARD"),
                     "SIMPLE_MOVE_TIMER")

DriveForwardHalf(s) == MotorCommandWrapper(s, "HalfSpeed", "HalfSpeed", "FORWARD", "FORWARD")

DriveForwardFull(s) == MotorCommandWrapper(s, "FullSpeed", "FullSpeed", "FORWARD", "FORWARD")

DriveReverseHalf(s) == MotorCommandWrapper(s, "HalfSpeed", "HalfSpeed", "REVERSE", "REVERSE")

DriveReverseFull(s) == MotorCommandWrapper(s, "FullSpeed", "FullSpeed", "REVERSE", "REVERSE")

SearchForTape(s) ==
  ES_Timer_InitTimer(MotorCommandWrapper(s, "FullSpeed", "FullSpeed", "FORWARD", "FORWARD"),
                     "TAPE_SEARCH_TIMER")

AlignWithBeacon(s) ==
  ES_Timer_InitTimer(MotorCommandWrapper(s, "FullSpeed", "FullSpeed", "FORWARD", "REVERSE"),
                     "BEACON_ALIGN_TIMER")

(* CurrentState = next *)
GoTo(s, next) == [s EXCEPT !.CurrentState = next]

(* The stop branch of the three moving states: stop the motors, go to Stopped *)
StopAndRest_MotorsKeepRunning(s) == GoTo(s, "Stopped")

StopAndRest(s) == GoTo(MotorCommandWrapper(s, "0", "0", "FORWARD", "FORWARD"), "Stopped")

(* The stop command not recognised *)
IsStopCommand_Never(ThisEvent) == FALSE

IsStopCommand(ThisEvent) ==
  ThisEvent.EventType = "ES_COMMAND_RETRIEVED" /\ ThisEvent.EventParam = CMD_STOP

IsTimeout(ThisEvent, timer) ==
  ThisEvent.EventType = "ES_TIMEOUT" /\ ThisEvent.EventParam = timer

(* case Stopped *)
RunStopped(s, ThisEvent, beaconHigh) ==
  IF ThisEvent.EventType # "ES_COMMAND_RETRIEVED" THEN s
  ELSE CASE ThisEvent.EventParam = CMD_STOP ->
              MotorCommandWrapper(s, "0", "0", "FORWARD", "FORWARD")
         [] ThisEvent.EventParam = CMD_ROTATE_CW_90 -> GoTo(RotateCW90(s), "SimpleMoving")
         [] ThisEvent.EventParam = CMD_ROTATE_CW_45 -> GoTo(RotateCW45(s), "SimpleMoving")
         [] ThisEvent.EventParam = CMD_ROTATE_CCW_90 -> GoTo(RotateCCW90(s), "SimpleMoving")
         [] ThisEvent.EventParam = CMD_ROTATE_CCW_45 -> GoTo(RotateCCW45(s), "SimpleMoving")
         [] ThisEvent.EventParam = CMD_DRIVE_FWD_HALF -> GoTo(DriveForwardHalf(s), "SimpleMoving")
         [] ThisEvent.EventParam = CMD_DRIVE_FWD_FULL -> GoTo(DriveForwardFull(s), "SimpleMoving")
         [] ThisEvent.EventParam = CMD_DRIVE_REV_HALF -> GoTo(DriveReverseHalf(s), "SimpleMoving")
         [] ThisEvent.EventParam = CMD_DRIVE_REV_FULL -> GoTo(DriveReverseFull(s), "SimpleMoving")
         [] ThisEvent.EventParam = CMD_ALIGN_BEACON ->
              GoTo(IF beaconHigh
                   THEN [s EXCEPT !.posts = Append(@, Event("ES_BEACON_DETECTED", 0))]
                   ELSE AlignWithBeacon(s),
                   "AligningWithBeacon")
         [] ThisEvent.EventParam = CMD_SEARCH_TAPE -> GoTo(SearchForTape(s), "SearchingForTape")
         [] OTHER -> s

(* SimpleMoving taking a new command as Stopped does *)
RunSimpleMoving_TakesCommands(s, ThisEvent) ==
  IF IsTimeout(ThisEvent, "SIMPLE_MOVE_TIMER") THEN StopAndRest(s)
  ELSE IF IsStopCommand(ThisEvent) THEN StopAndRest(s)
  ELSE RunStopped(s, ThisEvent, FALSE)

(* case SimpleMoving *)
RunSimpleMoving(s, ThisEvent) ==
  IF IsTimeout(ThisEvent, "SIMPLE_MOVE_TIMER") THEN StopAndRest(s)
  ELSE IF IsStopCommand(ThisEvent) THEN StopAndRest(s)
  ELSE s

(* case SearchingForTape *)
RunSearchingForTape(s, ThisEvent) ==
  IF ThisEvent.EventType = "ES_TAPE_DETECTED" THEN StopAndRest(s)
  ELSE IF IsTimeout(ThisEvent, "TAPE_SEARCH_TIMER") THEN StopAndRest(s)
  ELSE IF IsStopCommand(ThisEvent) THEN StopAndRest(s)
  ELSE s

(* case AligningWithBeacon *)
RunAligningWithBeacon(s, ThisEvent) ==
  IF ThisEvent.EventType = "ES_BEACON_DETECTED" THEN StopAndRest(s)
  ELSE IF IsTimeout(ThisEvent, "BEACON_ALIGN_TIMER") THEN StopAndRest(s)
  ELSE IF IsStopCommand(ThisEvent) THEN StopAndRest(s)
  ELSE s

RunMainLogicFSM(s, ThisEvent, beaconHigh) ==
  CASE s.CurrentState = "Stopped" -> RunStopped(s, ThisEvent, beaconHigh)
    [] s.CurrentState = "SimpleMoving" -> RunSimpleMoving(s, ThisEvent)
    [] s.CurrentState = "SearchingForTape" -> RunSearchingForTape(s, ThisEvent)
    [] s.CurrentState = "AligningWithBeacon" -> RunAligningWithBeacon(s, ThisEvent)
    [] OTHER -> s

(* ES_PostToService(MyPriority, ThisEvent): with the queue full the post   *)
(* fails and the event is lost                                             *)
PostMainLogicFSM(q, ThisEvent) ==
  IF Len(q) < MaxAlignQueue THEN Append(q, ThisEvent) ELSE q

(* InitMainLogicFSM has run: the state is Stopped, the motors have been    *)
(* told to stop and ES_INIT is posted.                                     *)
InitMainLogicFSM ==
  /\ MainLogicState = "Stopped"
  /\ MotorCommand = StopCommand
  /\ ActiveTimers = {}
  /\ BeaconInputPin \in BOOLEAN
  /\ mainQueue = <<EventOfType("ES_INIT")>>
  /\ issued = <<>>
  /\ leftOver = [timer |-> FALSE, queued |-> 0]

(* The main logic FSM as constructed, with the beacon input low *)
MainLogicAtRest == InitMainLogicFSM /\ BeaconInputPin = FALSE

(* A command byte has been retrieved: ES_COMMAND_RETRIEVED is posted *)
CommandRetrieved ==
  \E byte \in CommandBytes :
    /\ Len(mainQueue) < MaxMainQueue
    /\ mainQueue' = PostMainLogicFSM(mainQueue, Event("ES_COMMAND_RETRIEVED", byte))
    /\ UNCHANGED <<MainLogicState, MotorCommand, ActiveTimers, BeaconInputPin, issued,
                   leftOver, morseVars, encVars, dirVars>>

(* A running timer expires: the framework posts ES_TIMEOUT with the        *)
(* timer's number.                                                         *)
TimerExpires ==
  \E timer \in ActiveTimers :
    /\ Len(mainQueue) < MaxMainQueue
    /\ mainQueue' = PostMainLogicFSM(mainQueue, Event("ES_TIMEOUT", timer))
    /\ ActiveTimers' = ActiveTimers \ {timer}
    /\ leftOver' = IF timer = "SIMPLE_MOVE_TIMER"
                     THEN [timer |-> FALSE,
                           queued |-> IF leftOver.timer THEN leftOver.queued + 1
                                                        ELSE leftOver.queued]
                     ELSE leftOver
    /\ UNCHANGED <<MainLogicState, MotorCommand, BeaconInputPin, issued, morseVars, encVars, dirVars>>

(* The tape sensor reports tape *)
TapeDetected ==
  /\ Len(mainQueue) < MaxMainQueue
  /\ mainQueue' = PostMainLogicFSM(mainQueue, Event("ES_TAPE_DETECTED", 0))
  /\ UNCHANGED <<MainLogicState, MotorCommand, ActiveTimers, BeaconInputPin, issued,
                 leftOver, morseVars, encVars, dirVars>>

(* The beacon input goes high and ES_BEACON_DETECTED is posted *)
BeaconDetected ==
  /\ ~BeaconInputPin
  /\ Len(mainQueue) < MaxMainQueue
  /\ BeaconInputPin' = TRUE
  /\ mainQueue' = PostMainLogicFSM(mainQueue, Event("ES_BEACON_DETECTED", 0))
  /\ UNCHANGED <<MainLogicState, MotorCommand, ActiveTimers, issued, leftOver, morseVars, encVars, dirVars>>

(* The beacon input goes low *)
BeaconLost ==
  /\ BeaconInputPin
  /\ BeaconInputPin' = FALSE
  /\ UNCHANGED <<MainLogicState, MotorCommand, ActiveTimers, mainQueue, issued, leftOver,
                 morseVars, encVars, dirVars>>

(* How many SIMPLE_MOVE_TIMER timeouts wait in the queue q *)
RECURSIVE QueuedMoveTimeouts(_)
QueuedMoveTimeouts(q) ==
  IF q = <<>> THEN 0
  ELSE (IF IsTimeout(Head(q), "SIMPLE_MOVE_TIMER") THEN 1 ELSE 0)
       + QueuedMoveTimeouts(Tail(q))

(* The bookkeeping of left-over move timers after RunMainLogicFSM took     *)
(* ThisEvent in state from and returned s, with q queued afterwards: when  *)
(* a SimpleMoving move ends, the timer still running and every timeout     *)
(* still queued are left over; a timer the call started is not; a          *)
(* left-over timeout taken from the queue is no longer queued.             *)
LeftOverAfter(from, ThisEvent, s, q) ==
  IF from = "SimpleMoving" /\ s.CurrentState = "Stopped"
  THEN [timer |-> "SIMPLE_MOVE_TIMER" \in s.ActiveTimers,
        queued |-> QueuedMoveTimeouts(q)]
  ELSE [timer |-> leftOver.timer /\ "SIMPLE_MOVE_TIMER" \notin s.started,
        queued |-> IF IsTimeout(ThisEvent, "SIMPLE_MOVE_TIMER") /\ leftOver.queued > 0
                   THEN leftOver.queued - 1 ELSE leftOver.queued]

(* The framework takes the event at the head of the main logic FSM's queue *)
(* and runs RunMainLogicFSM on it to completion.                           *)
DispatchMain ==
  /\ ~trapped
  /\ mainQueue # <<>>
  /\ LET s == RunMainLogicFSM(MainMachine, Head(mainQueue), BeaconInputPin)
     IN  /\ MainLogicState' = s.CurrentState
         /\ MotorCommand' = s.MotorCommand
         /\ ActiveTimers' = s.ActiveTimers
         /\ mainQueue' = Tail(mainQueue) \o s.posts
         /\ issued' = s.issued
         /\ leftOver' = LeftOverAfter(MainLogicState, Head(mainQueue), s,
                                      Tail(mainQueue) \o s.posts)
  /\ UNCHANGED <<BeaconInputPin, morseVars, encVars, dirVars>>

-----------------------------------------------------------------------------
(* EncoderService.c: the encoder's input capture, the Timer3 rollover      *)
(* counter and the service that turns capture times into a time lapse.     *)

Word16 == 65536
HalfRange == 32768

(* A uint32_t is held as its two 16-bit halves <<high, low>>, and the      *)
(* arithmetic of the code is done on the halves, modulo 2^32.              *)
U32(n) == <<n \div Word16, n % Word16>>

INVALID_TIME == <<Word16 - 1, Word16 - 1>>
TIMER_MAX_PERIOD == <<Word16 - 1, Word16 - 1>>

Less32(a, b) == a[1] < b[1] \/ (a[1] = b[1] /\ a[2] < b[2])

Add32(a, b) ==
  LET low == a[2] + b[2]
  IN  <<(a[1] + b[1] + low \div Word16) % Word16, low % Word16>>

Sub32(a, b) ==
  LET low == a[2] - b[2] + Word16
  IN  <<(a[1] - b[1] + Word16 - (IF low < Word16 THEN 1 ELSE 0)) % Word16, low % Word16>>

Times5(a) ==
  LET low == 5 * a[2]
  IN  <<(5 * a[1] + low \div Word16) % Word16, low % Word16>>

Over6(a) == <<a[1] \div 6, ((a[1] % 6) * Word16 + a[2]) \div 6>>

MIN_TIME_LAPSE == 128000 \div 256
MAX_TIME_LAPSE == 10500000 \div 256
NUM_LED_PATTERNS == 8

(* The values of the 16-bit TMR3 the model samples: the start and the end  *)
(* of each half of the timer's range                                       *)
TimerSamples == {0, HalfRange - 1, HalfRange, Word16 - 1}

(* TMR3 counting on from t to the next sampled value; Word16 - 1 rolls     *)
(* over to 0                                                               *)
NextSample(t) ==
  CASE t = 0 -> HalfRange - 1
    [] t = HalfRange - 1 -> HalfRange
    [] t = HalfRange -> Word16 - 1
    [] OTHER -> 0

LEDPatternLookup == <<1, 3, 7, 15, 31, 63, 127, 255>>

(* thresholds[i - 1] of MapTimeLapseToLEDPattern *)
Threshold(i) == MIN_TIME_LAPSE + ((MAX_TIME_LAPSE - MIN_TIME_LAPSE) * i) \div 8

Clamp(timeLapse) ==
  IF Less32(timeLapse, U32(MIN_TIME_LAPSE)) THEN MIN_TIME_LAPSE
  ELSE IF Less32(U32(MAX_TIME_LAPSE), timeLapse) THEN MAX_TIME_LAPSE
  ELSE timeLapse[2]

MapTimeLapseToLEDPattern(timeLapse) ==
  LET zones == {i \in 1..(NUM_LED_PATTERNS - 1) : Clamp(timeLapse) < Threshold(i)}
  IN  IF zones = {} THEN LEDPatternLookup[NUM_LED_PATTERNS]
      ELSE LEDPatternLookup[CHOOSE i \in zones : \A j \in zones : i <= j]

(* The time lapse RunEncoderService computes between two capture times *)
TimeLapse(current, last) ==
  IF ~Less32(current, last) THEN Sub32(current, last)
  ELSE Add32(Add32(Sub32(TIMER_MAX_PERIOD, last), current), U32(1))

(* SmoothedTimeLapse after a new time lapse *)
Smooth(timeLapse, first, smoothed) ==
  IF first THEN timeLapse ELSE Over6(Add32(timeLapse, Times5(smoothed)))

(* ((uint32_t)RolloverCounter << 16) | capturedTimer16 *)
Combine(rollovers, captured16) == <<rollovers, captured16>>

(* No RunEncoderService call has computed a time lapse yet *)
NoLapse == <<-1, -1>>

(* __builtin_disable_interrupts() left out of Timer3ISR *)
DisableInterrupts_Skipped(enabled) == enabled

(* __builtin_disable_interrupts(): the CPU takes no interrupt afterwards *)
DisableInterrupts(enabled) == FALSE

IC_ENCODER_EDGES_PER_REV == 3048 \div 16

(* timerClock * SECONDS_PER_MINUTE * 100 of CalculateRPM, with             *)
(* timerClock = PBCLK_FREQ / TIMER_PRESCALE; it fits in 32 bits            *)
RPMNumerator == (20000000 \div 256) * 60 * 100

(* timeLapse * IC_ENCODER_EDGES_PER_REV in uint32_t *)
TimesEdgesPerRev(a) ==
  LET low == IC_ENCODER_EDGES_PER_REV * a[2]
  IN  <<(IC_ENCODER_EDGES_PER_REV * a[1] + low \div Word16) % Word16, low % Word16>>

(* What the division of CalculateRPM may yield when the divisor is 0 and   *)
(* the CPU does not trap: undefined behaviour, any value; 0 and the        *)
(* all-ones word (printed as -1) stand for them.                           *)
DivZeroRPMs == {0, -1}

(* CalculateRPM(timeLapse): the outcomes of the call, each either a trap   *)
(* or the value returned. Only timeLapse = 0 is kept from the division;    *)
(* the divisor is the product modulo 2^32, which is 0 for 0x80000000 too.  *)
CalculateRPM(timeLapse) ==
  LET divisor == TimesEdgesPerRev(timeLapse)
      Returns(r) == [trap |-> FALSE, rpm |-> r]
  IN  IF timeLapse = U32(0) THEN {Returns(0)}
      ELSE IF divisor = U32(0)
      THEN {[trap |-> TRUE, rpm |-> 0]} \cup {Returns(r) : r \in DivZeroRPMs}
      ELSE IF divisor[1] >= HalfRange THEN {Returns(0)}
      ELSE {Returns(RPMNumerator \div (divisor[1] * Word16 + divisor[2]))}

(* ES_PostToService(MyPriority, ThisEvent) of the encoder service: with    *)
(* the queue full the post fails and the event is lost                     *)
PostEncoderService(q, ev) == IF Len(q) < MaxEncQueue THEN Append(q, ev) ELSE q

(* The event InputCaptureISR posts: the type only is assigned; the capture *)
(* time of the posting capture rides along as history.                     *)
NewEncoderEdge(captured) == [EventType |-> "ES_NEW_ENCODER_EDGE", captured |-> captured]

(* The module's variables as the C initialisers leave them, the framework  *)
(* not yet started                                                         *)
EncoderModuleLoaded ==
  /\ capturedTimer16 = 0
  /\ RolloverCounter = 0
  /\ CapturedTime = U32(0)
  /\ LastCapturedTime = INVALID_TIME
  /\ SmoothedTimeLapse = U32(0)
  /\ FirstSample = TRUE
  /\ LEDPattern = 0
  /\ lastLapse = NoLapse
  /\ encPrinted = <<>>
  /\ flagsRaised = 0
  /\ capturesTaken = 0

(* InitEncoderService has come back from ConfigureInputCapture: Timer3 is  *)
(* counting from 0, the input capture is on, both interrupts are enabled   *)
(* and may be taken from now on; the rest of the function is still to run. *)
EncoderConfigured ==
  /\ EncoderModuleLoaded
  /\ TMR3 = 0
  /\ T3IF = FALSE
  /\ IC1IF = FALSE
  /\ IC1BUF = <<>>
  /\ edgeArmed = TRUE
  /\ intsEnabled = TRUE
  /\ icPC = "idle"
  /\ t3PC = "idle"
  /\ initPC = "last"
  /\ printTimer = FALSE
  /\ encQueue = <<>>

(* InitEncoderService has returned and no interrupt was taken while it     *)
(* ran: PRINT_RPM_TIMER is running and ES_INIT is posted.                  *)
EncoderServiceStarted ==
  /\ EncoderModuleLoaded
  /\ TMR3 = 0
  /\ T3IF = FALSE
  /\ IC1IF = FALSE
  /\ IC1BUF = <<>>
  /\ edgeArmed = TRUE
  /\ intsEnabled = TRUE
  /\ icPC = "idle"
  /\ t3PC = "idle"
  /\ initPC = "done"
  /\ printTimer = TRUE
  /\ encQueue = <<EventOfType("ES_INIT")>>

(* What an action of another module leaves alone *)
encHardware == <<TMR3, T3IF, IC1IF, IC1BUF, edgeArmed, intsEnabled, flagsRaised, capturesTaken>>
encService == <<LastCapturedTime, SmoothedTimeLapse, FirstSample, LEDPattern, lastLapse>>
encFramework == <<initPC, printTimer, encPrinted>>

(* The statements of InitEncoderService after ConfigureInputCapture, one   *)
(* at a time, at main level while no interrupt is being served: the two    *)
(* timing variables are written, PRINT_RPM_TIMER is started and ES_INIT,   *)
(* its EventParam never assigned, is posted.                               *)
InitEncoderService ==
  /\ ~trapped
  /\ initPC # "done"
  /\ icPC = "idle" /\ t3PC = "idle"
  /\ CASE initPC = "last" ->
            /\ LastCapturedTime' = INVALID_TIME
            /\ initPC' = "captured"
            /\ UNCHANGED <<CapturedTime, printTimer, encQueue>>
       [] initPC = "captured" ->
            /\ CapturedTime' = U32(0)
            /\ initPC' = "timer"
            /\ UNCHANGED <<LastCapturedTime, printTimer, encQueue>>
       [] initPC = "timer" ->
            /\ printTimer' = TRUE
            /\ initPC' = "post"
            /\ UNCHANGED <<LastCapturedTime, CapturedTime, encQueue>>
       [] initPC = "post" ->
            /\ encQueue' = PostEncoderService(encQueue, EventOfType("ES_INIT"))
            /\ initPC' = "done"
            /\ UNCHANGED <<LastCapturedTime, CapturedTime, printTimer>>
  /\ UNCHANGED <<encHardware, icPC, t3PC, capturedTimer16, RolloverCounter,
                 SmoothedTimeLapse, FirstSample, LEDPattern, lastLapse, encPrinted,
                 morseVars, mainVars, dirVars>>

(* PRINT_RPM_TIMER expires: the framework's tick interrupt, served while   *)
(* no encoder interrupt is, posts ES_TIMEOUT with the timer's number.      *)
PrintTimerExpires ==
  /\ ~trapped
  /\ printTimer
  /\ intsEnabled /\ icPC = "idle" /\ t3PC = "idle"
  /\ printTimer' = FALSE
  /\ encQueue' = PostEncoderService(encQueue, Event("ES_TIMEOUT", "PRINT_RPM_TIMER"))
  /\ UNCHANGED <<encHardware, encService, icPC, t3PC, capturedTimer16, RolloverCounter,
                 CapturedTime, initPC, encPrinted, morseVars, mainVars, dirVars>>

(* Timer3 counts on. When it rolls over the hardware sets T3IF; a flag     *)
(* that was clear before is a new rollover flag.                           *)
TimerTick ==
  /\ (TMR3 = Word16 - 1 /\ ~T3IF) => flagsRaised < MaxRollovers
  /\ TMR3' = NextSample(TMR3)
  /\ T3IF' = (T3IF \/ TMR3 = Word16 - 1)
  /\ flagsRaised' = IF TMR3 = Word16 - 1 /\ ~T3IF THEN flagsRaised + 1 ELSE flagsRaised
  /\ edgeArmed' = TRUE
  /\ UNCHANGED <<IC1IF, IC1BUF, intsEnabled, capturesTaken, icPC, t3PC, capturedTimer16,
                 RolloverCounter, CapturedTime, encQueue, encService, encFramework,
                 morseVars, mainVars, dirVars>>

(* The sixteenth rising edge since the last capture arrives: the input     *)
(* capture module latches TMR3 into its buffer and sets IC1IF.             *)
EncoderEdge ==
  /\ capturesTaken < MaxCaptures
  /\ edgeArmed
  /\ IC1BUF' = Append(IC1BUF, TMR3)
  /\ IC1IF' = TRUE
  /\ edgeArmed' = FALSE
  /\ capturesTaken' = capturesTaken + 1
  /\ UNCHANGED <<TMR3, T3IF, intsEnabled, flagsRaised, icPC, t3PC, capturedTimer16,
                 RolloverCounter, CapturedTime, encQueue, encService, encFramework,
                 morseVars, mainVars, dirVars>>

(* InputCaptureISR (priority 7), one statement at a time. The CPU enters   *)
(* it when IC1IF is set and interrupts are enabled, also in the middle of  *)
(* Timer3ISR; nothing interrupts it.                                       *)
InputCaptureISR ==
  /\ ~trapped
  /\ CASE icPC = "idle" ->
            /\ IC1IF /\ intsEnabled
            /\ icPC' = "read"
            /\ UNCHANGED <<IC1BUF, IC1IF, T3IF, capturedTimer16, RolloverCounter,
                           CapturedTime, encQueue>>
       [] icPC = "read" ->
            /\ capturedTimer16' = Head(IC1BUF)
            /\ IC1BUF' = Tail(IC1BUF)
            /\ icPC' = "clearIC"
            /\ UNCHANGED <<IC1IF, T3IF, RolloverCounter, CapturedTime, encQueue>>
       [] icPC = "clearIC" ->
            /\ IC1IF' = (IC1BUF # <<>>)
            /\ icPC' = "test"
            /\ UNCHANGED <<IC1BUF, T3IF, capturedTimer16, RolloverCounter, CapturedTime,
                           encQueue>>
       [] icPC = "test" ->
            /\ icPC' = IF T3IF /\ capturedTimer16 < HalfRange THEN "inc" ELSE "combine"
            /\ UNCHANGED <<IC1BUF, IC1IF, T3IF, capturedTimer16, RolloverCounter,
                           CapturedTime, encQueue>>
       [] icPC = "inc" ->
            /\ RolloverCounter' = (RolloverCounter + 1) % Word16
            /\ icPC' = "clearT3"
            /\ UNCHANGED <<IC1BUF, IC1IF, T3IF, capturedTimer16, CapturedTime, encQueue>>
       [] icPC = "clearT3" ->
            /\ T3IF' = FALSE
            /\ icPC' = "combine"
            /\ UNCHANGED <<IC1BUF, IC1IF, capturedTimer16, RolloverCounter, CapturedTime,
                           encQueue>>
       [] icPC = "combine" ->
            /\ CapturedTime' = Combine(RolloverCounter, capturedTimer16)
            /\ icPC' = "post"
            /\ UNCHANGED <<IC1BUF, IC1IF, T3IF, capturedTimer16, RolloverCounter, encQueue>>
       [] OTHER ->
            /\ encQueue' = PostEncoderService(encQueue, NewEncoderEdge(CapturedTime))
            /\ icPC' = "idle"
            /\ UNCHANGED <<IC1BUF, IC1IF, T3IF, capturedTimer16, RolloverCounter,
                           CapturedTime>>
  /\ UNCHANGED <<TMR3, edgeArmed, intsEnabled, flagsRaised, capturesTaken, t3PC, encService,
                 encFramework, morseVars, mainVars, dirVars>>

(* Timer3ISR (priority 6), one statement at a time. The CPU enters it when *)
(* T3IF is set, interrupts are enabled and no input capture interrupt is   *)
(* pending or being served; it runs on only while InputCaptureISR is not   *)
(* being served.                                                           *)
Timer3ISR ==
  /\ ~trapped
  /\ icPC = "idle"
  /\ CASE t3PC = "idle" ->
            /\ T3IF /\ intsEnabled /\ ~IC1IF
            /\ t3PC' = "entered"
            /\ UNCHANGED <<T3IF, intsEnabled, RolloverCounter>>
       [] t3PC = "entered" ->
            /\ intsEnabled' = DisableInterrupts(intsEnabled)
            /\ t3PC' = "test"
            /\ UNCHANGED <<T3IF, RolloverCounter>>
       [] t3PC = "test" ->
            /\ t3PC' = IF T3IF THEN "inc" ELSE "enable"
            /\ UNCHANGED <<T3IF, intsEnabled, RolloverCounter>>
       [] t3PC = "inc" ->
            /\ RolloverCounter' = (RolloverCounter + 1) % Word16
            /\ t3PC' = "clearT3"
            /\ UNCHANGED <<T3IF, intsEnabled>>
       [] t3PC = "clearT3" ->
            /\ T3IF' = FALSE
            /\ t3PC' = "enable"
            /\ UNCHANGED <<intsEnabled, RolloverCounter>>
       [] OTHER ->
            /\ intsEnabled' = TRUE
            /\ t3PC' = "idle"
            /\ UNCHANGED <<T3IF, RolloverCounter>>
  /\ UNCHANGED <<TMR3, IC1IF, IC1BUF, edgeArmed, flagsRaised, capturesTaken, icPC,
                 capturedTimer16, CapturedTime, encQueue, encService, encFramework,
                 morseVars, mainVars, dirVars>>

(* RunEncoderService(ThisEvent), at main level once InitEncoderService has *)
(* returned and while no interrupt is being served: the event at the head  *)
(* of the service's queue is taken and run to completion. ES_INIT prints a *)
(* line; ES_NEW_ENCODER_EDGE latches CapturedTime and updates the smoothed *)
(* time lapse and the LEDs; ES_TIMEOUT of PRINT_RPM_TIMER prints           *)
(* CalculateRPM(SmoothedTimeLapse) and restarts the timer, unless the      *)
(* division traps; any other event does nothing.                           *)
RunEncoderService ==
  /\ ~trapped
  /\ initPC = "done"
  /\ encQueue # <<>>
  /\ icPC = "idle" /\ t3PC = "idle"
  /\ encQueue' = Tail(encQueue)
  /\ LET ev == Head(encQueue) IN
     CASE ev.EventType = "ES_INIT" ->
            /\ encPrinted' = <<"Encoder Service Initialized">>
            /\ UNCHANGED <<encService, printTimer, trapped>>
       [] ev.EventType = "ES_NEW_ENCODER_EDGE" ->
            LET CurrentCapturedTime == CapturedTime
                timeLapse == TimeLapse(CurrentCapturedTime, LastCapturedTime)
                smoothed == Smooth(timeLapse, FirstSample, SmoothedTimeLapse)
            IN  /\ IF LastCapturedTime # INVALID_TIME
                   THEN /\ SmoothedTimeLapse' = smoothed
                        /\ FirstSample' = FALSE
                        /\ LEDPattern' = MapTimeLapseToLEDPattern(smoothed)
                        /\ lastLapse' = timeLapse
                   ELSE UNCHANGED <<SmoothedTimeLapse, FirstSample, LEDPattern, lastLapse>>
                /\ LastCapturedTime' = CurrentCapturedTime
                /\ encPrinted' = <<>>
                /\ UNCHANGED <<printTimer, trapped>>
       [] ev.EventType = "ES_TIMEOUT" /\ ev.EventParam = "PRINT_RPM_TIMER" ->
            \E o \in CalculateRPM(SmoothedTimeLapse) :
              /\ trapped' = o.trap
              /\ encPrinted' = IF o.trap THEN <<>> ELSE <<"RPM*100: ", o.rpm>>
              /\ printTimer' = (printTimer \/ ~o.trap)
              /\ UNCHANGED encService
       [] OTHER ->
            /\ encPrinted' = <<>>
            /\ UNCHANGED <<encService, printTimer, trapped>>
  /\ UNCHANGED <<encHardware, icPC, t3PC, capturedTimer16, RolloverCounter, CapturedTime,
                 initPC, morseKept, queue, mainVars, dirVars>>

-----------------------------------------------------------------------------
(* EventCheckers.c: Check4Keystroke and Check4DirectionChange              *)

(* ES_PostAll(ThisEvent): the event is posted to the queue of every        *)
(* service; a full queue drops it.                                         *)
ES_PostAll(ev) ==
  /\ queue' = PostMorseElementsService(queue, ev)
  /\ mainQueue' = PostMainLogicFSM(mainQueue, ev)
  /\ encQueue' = PostEncoderService(encQueue, ev)

(* No key is waiting in the serial port *)
NoKey == -1

(* The keys the terminal sends: a space and a letter *)
Keys == {32, 97}

(* (CurrentDirState != LastDirState) && (CurrentDirState == 1), taken for  *)
(* any change of the input                                                 *)
DirectionChanged_AnyEdge(CurrentDirState, last) == CurrentDirState # last

(* (CurrentDirState != LastDirState) && (CurrentDirState == 1) *)
DirectionChanged(CurrentDirState, last) == CurrentDirState # last /\ CurrentDirState = 1

(* Before the first call: static uint8_t LastDirState = 0, nothing posted; *)
(* the direction input is low at power-up and may rise before the first    *)
(* call; no key is waiting                                                 *)
DirectionCheckerAtStart ==
  /\ RB8 = 0
  /\ LastDirState = 0
  /\ DirReturnVal = FALSE
  /\ dirPosted = 0
  /\ lastSample = -1
  /\ dirCalls = 0
  /\ dirPrinted = <<>>
  /\ NewKey = NoKey
  /\ KeyReturnVal = FALSE

(* The direction input changes level *)
DirectionInputChanges ==
  /\ RB8' = 1 - RB8
  /\ UNCHANGED <<LastDirState, DirReturnVal, dirPosted, lastSample, dirCalls, dirPrinted,
                 NewKey, KeyReturnVal, morseVars, mainVars, encVars>>

(* Check4DirectionChange(), called by the framework between events: on a   *)
(* change of the input to high ES_DIR_CHANGE with EventParam 0 goes to     *)
(* every service and a line is printed; the level read is remembered.      *)
Check4DirectionChange ==
  /\ ~trapped
  /\ dirCalls < MaxDirCalls
  /\ LET CurrentDirState == RB8
     IN  /\ IF DirectionChanged(CurrentDirState, LastDirState)
            THEN /\ ES_PostAll(Event("ES_DIR_CHANGE", 0))
                 /\ dirPosted' = dirPosted + 1
                 /\ DirReturnVal' = TRUE
                 /\ dirPrinted' = <<"Direction changed!">>
            ELSE /\ UNCHANGED <<queue, mainQueue, encQueue, dirPosted>>
                 /\ DirReturnVal' = FALSE
                 /\ dirPrinted' = <<>>
         /\ LastDirState' = CurrentDirState
         /\ lastSample' = CurrentDirState
  /\ dirCalls' = dirCalls + 1
  /\ UNCHANGED <<RB8, NewKey, KeyReturnVal, morseKept, trapped, mainKept, encKept>>

(* A key arrives at the serial port while none is waiting *)
KeyArrives ==
  /\ NewKey = NoKey
  /\ NewKey' \in Keys
  /\ UNCHANGED <<RB8, LastDirState, DirReturnVal, dirPosted, lastSample, dirCalls, dirPrinted,
                 KeyReturnVal, morseVars, mainVars, encVars>>

(* Check4Keystroke(), called by the framework between events: a waiting    *)
(* key is taken from the port and ES_NEW_KEY with the key as EventParam    *)
(* goes to every service.                                                  *)
Check4Keystroke ==
  /\ ~trapped
  /\ IF NewKey # NoKey
     THEN /\ ES_PostAll(Event("ES_NEW_KEY", NewKey))
          /\ NewKey' = NoKey
          /\ KeyReturnVal' = TRUE
     ELSE /\ UNCHANGED <<queue, mainQueue, encQueue, NewKey>>
          /\ KeyReturnVal' = FALSE
  /\ UNCHANGED <<RB8, LastDirState, DirReturnVal, dirPosted, lastSample, dirCalls, dirPrinted,
                 morseKept, trapped, mainKept, encKept>>

(* InitMorseElementsService has run: the input line has been sampled and   *)
(* ES_INIT is posted.                                                      *)
InitMorseElementsService ==
  /\ CurrentState = "InitMorseElements"
  /\ FirstDelta = 0
  /\ TimeOfLastRise = 0
  /\ TimeOfLastFall = 0
  /\ LengthOfDot = 0
  /\ LastInputState \in {0, 1}
  /\ queue = <<EventOfType("ES_INIT")>>
  /\ printed = <<>>
  /\ trapped = FALSE
  /\ Time = StartTime
  /\ convergedSinceReset = FALSE
  /\ twin = TwinOff
  /\ transcript = TranscriptOff
  /\ written = NothingWritten
  /\ charGapSeen = FALSE
  /\ edgesLost = 0
  /\ ReturnVal = FALSE

(* Every service has been initialised and no event has been dispatched yet *)
ServicesStarted ==
  /\ InitMorseElementsService
  /\ MainLogicAtRest
  /\ EncoderServiceStarted
  /\ DirectionCheckerAtStart

Init ==
  /\ ServicesStarted
  /\ QueueSize = MaxQueue
  /\ LossLimit = 0
  /\ PulseWidths = Widths
  /\ GapWidths = Widths
  /\ edgesLeft = MaxEdges
  /\ resetsLeft = MaxResets

Next == SignalEdge \/ ButtonDown \/ Dispatch

Spec == Init /\ [][Next]_vars

-----------------------------------------------------------------------------
(* Calibration over many sample pairs: the machine as constructed, fed by  *)
(* a source whose pulses all have one of two widths a, b (one width when   *)
(* a = b).                                                                 *)

SampleWidths == (1..MaxSample) \cup {18, 53, 90, 310}

CalGapWidths == {30}

InitCal ==
  /\ ServicesStarted
  /\ QueueSize = MaxQueue
  /\ LossLimit = 0
  /\ PulseWidths \in {{a, b} : a \in SampleWidths, b \in SampleWidths}
  /\ GapWidths = CalGapWidths
  /\ edgesLeft = MaxCalEdges
  /\ resetsLeft = MaxResets

SpecCal == InitCal /\ [][Next]_vars

-----------------------------------------------------------------------------
(* Classification over many widths: the machine calibrated to a dot length *)
(* d, waiting in DecodeWaitFall for the end of a pulse that began at       *)
(* ClassifyStart after an end-of-character gap, fed by a source whose      *)
(* pulses and gaps all have the width w.                                   *)

DotLengths == {1, 2, 3, 7, 100}

ClassifyStart == Modulus - 300

InitClassify ==
  \E d \in DotLengths, w \in 0..MaxWidth :
    /\ CurrentState = "DecodeWaitFall"
    /\ LengthOfDot = d
    /\ FirstDelta = d
    /\ TimeOfLastRise = ClassifyStart
    /\ TimeOfLastFall = Sub16(ClassifyStart, 3 * d)
    /\ LastInputState = 1
    /\ queue = <<>>
    /\ printed = <<>>
    /\ trapped = FALSE
    /\ Time = ClassifyStart
    /\ convergedSinceReset = TRUE
    /\ twin = TwinOff
    /\ transcript = TranscriptOff
    /\ written = BothWritten
    /\ charGapSeen = TRUE
    /\ edgesLost = 0
    /\ ReturnVal = FALSE
    /\ QueueSize = MaxQueue
    /\ LossLimit = 0
    /\ MainLogicAtRest
    /\ EncoderServiceStarted
    /\ DirectionCheckerAtStart
    /\ PulseWidths = {w}
    /\ GapWidths = {w}
    /\ edgesLeft = MaxClassifyEdges
    /\ resetsLeft = MaxResets

SpecClassify == InitClassify /\ [][Next]_vars

(* The same source met in EOC_WaitRise: the machine calibrated to d, not   *)
(* yet decoding, after the falling edge at ClassifyStart of a pulse of d   *)
(* ticks was processed in EOC_WaitFall.                                    *)
InitEndWait ==
  \E d \in DotLengths, w \in 0..MaxWidth :
    /\ CurrentState = "EOC_WaitRise"
    /\ LengthOfDot = d
    /\ FirstDelta = d
    /\ TimeOfLastRise = Sub16(ClassifyStart, d)
    /\ TimeOfLastFall = ClassifyStart
    /\ LastInputState = 0
    /\ queue = <<>>
    /\ printed = <<>>
    /\ trapped = FALSE
    /\ Time = ClassifyStart
    /\ convergedSinceReset = TRUE
    /\ twin = TwinOff
    /\ transcript = TranscriptOff
    /\ written = BothWritten
    /\ charGapSeen = FALSE
    /\ edgesLost = 0
    /\ ReturnVal = FALSE
    /\ QueueSize = MaxQueue
    /\ LossLimit = 0
    /\ MainLogicAtRest
    /\ EncoderServiceStarted
    /\ DirectionCheckerAtStart
    /\ PulseWidths = {w}
    /\ GapWidths = {w}
    /\ edgesLeft = MaxClassifyEdges
    /\ resetsLeft = MaxResets

InitGaps == InitClassify \/ InitEndWait

SpecGaps == InitGaps /\ [][Next]_vars

-----------------------------------------------------------------------------
(* A signal in which every pulse and every gap lasts at least one timer   *)
(* tick: no width is 0 and no division by zero occurs.                     *)

NonZeroWidths == Widths \ {0}

InitNonZero ==
  /\ ServicesStarted
  /\ QueueSize = MaxQueue
  /\ LossLimit = 0
  /\ PulseWidths = NonZeroWidths
  /\ GapWidths = NonZeroWidths
  /\ edgesLeft = MaxEdges
  /\ resetsLeft = MaxResets

SpecNonZero == InitNonZero /\ [][Next]_vars

-----------------------------------------------------------------------------
(* Decoding a train: the machine calibrated to a dot length of 100 ticks,  *)
(* waiting in DecodeWaitFall for the end of a pulse that began at          *)
(* ClassifyStart after an end-of-character gap, fed pulses of 100 ticks    *)
(* separated by gaps of 100, 300 or 700 ticks; the events processed and    *)
(* the lines printed are recorded.                                         *)

TrainPulseWidths == {100}

TrainGapWidths == {100, 300, 700}

InitTrain ==
  /\ CurrentState = "DecodeWaitFall"
  /\ LengthOfDot = 100
  /\ FirstDelta = 100
  /\ TimeOfLastRise = ClassifyStart
  /\ TimeOfLastFall = Sub16(ClassifyStart, 300)
  /\ LastInputState = 1
  /\ queue = <<>>
  /\ printed = <<>>
  /\ trapped = FALSE
  /\ Time = ClassifyStart
  /\ convergedSinceReset = TRUE
  /\ twin = TwinOff
  /\ transcript = [recording |-> TRUE, events |-> <<>>, text |-> <<>>]
  /\ written = BothWritten
  /\ charGapSeen = TRUE
  /\ edgesLost = 0
  /\ ReturnVal = FALSE
  /\ QueueSize = MaxQueue
  /\ LossLimit = 0
  /\ MainLogicAtRest
  /\ EncoderServiceStarted
  /\ DirectionCheckerAtStart
  /\ PulseWidths = TrainPulseWidths
  /\ GapWidths = TrainGapWidths
  /\ edgesLeft = MaxTrainEdges
  /\ resetsLeft = MaxResets

SpecTrain == InitTrain /\ [][Next]_vars

-----------------------------------------------------------------------------
(* Timer wraparound: the machine as constructed at a time less than        *)
(* MaxWrapLead ticks before the 16-bit timer wraps, fed pulses and gaps of *)
(* 2 or 6 ticks, so that the wrap falls inside any one of the first        *)
(* pulses and gaps.                                                        *)

WrapWidths == {2, 6}

WrapStarts == (Modulus - MaxWrapLead)..(Modulus - 1)

InitWrap ==
  /\ CurrentState = "InitMorseElements"
  /\ FirstDelta = 0
  /\ TimeOfLastRise = 0
  /\ TimeOfLastFall = 0
  /\ LengthOfDot = 0
  /\ LastInputState = 0
  /\ queue = <<EventOfType("ES_INIT")>>
  /\ printed = <<>>
  /\ trapped = FALSE
  /\ Time \in WrapStarts
  /\ convergedSinceReset = FALSE
  /\ twin = TwinOff
  /\ transcript = TranscriptOff
  /\ written = NothingWritten
  /\ charGapSeen = FALSE
  /\ edgesLost = 0
  /\ ReturnVal = FALSE
  /\ QueueSize = MaxQueue
  /\ LossLimit = 0
  /\ MainLogicAtRest
  /\ EncoderServiceStarted
  /\ DirectionCheckerAtStart
  /\ PulseWidths = WrapWidths
  /\ GapWidths = WrapWidths
  /\ edgesLeft = MaxEdges
  /\ resetsLeft = MaxResets

SpecWrap == InitWrap /\ [][Next]_vars

-----------------------------------------------------------------------------
(* Recalibration: the machine either as constructed or as it is after the  *)
(* pulses 30 and 100 (sent from StartTime with gaps of 30) have calibrated *)
(* it to a dot length of 30 and CalibrationComplete has been processed.    *)

InitCalibrated ==
  /\ CurrentState = "EOC_WaitRise"
  /\ LengthOfDot = 30
  /\ FirstDelta = 30
  /\ TimeOfLastRise = (StartTime + 60) % Modulus
  /\ TimeOfLastFall = (StartTime + 160) % Modulus
  /\ LastInputState = 0
  /\ queue = <<>>
  /\ printed = <<"Length of dot calibrated">>
  /\ trapped = FALSE
  /\ Time = (StartTime + 160) % Modulus
  /\ convergedSinceReset = TRUE
  /\ twin = TwinOff
  /\ transcript = TranscriptOff
  /\ written = BothWritten
  /\ charGapSeen = FALSE
  /\ edgesLost = 0
  /\ ReturnVal = FALSE
  /\ QueueSize = MaxQueue
  /\ LossLimit = 0
  /\ MainLogicAtRest
  /\ EncoderServiceStarted
  /\ DirectionCheckerAtStart
  /\ PulseWidths = NonZeroWidths
  /\ GapWidths = NonZeroWidths
  /\ edgesLeft = MaxEdges
  /\ resetsLeft = MaxResets

InitRecal == InitNonZero \/ InitCalibrated

SpecRecal == InitRecal /\ [][Next]_vars

-----------------------------------------------------------------------------
(* A long train from construction: ten edges of pulses and gaps of 30 or   *)
(* 100 ticks and one Reset, enough for a calibration, a Reset and a second *)
(* entry into the decoding states while events are still queued.           *)

StaleWidths == {30, 100}

InitStale ==
  /\ ServicesStarted
  /\ QueueSize = MaxStaleQueue
  /\ LossLimit = 0
  /\ LastInputState = 0
  /\ PulseWidths = StaleWidths
  /\ GapWidths = StaleWidths
  /\ edgesLeft = MaxStaleEdges
  /\ resetsLeft = MaxResets

SpecStale == InitStale /\ [][Next]_vars

-----------------------------------------------------------------------------
(* The event checker called at any time: the line may or may not have      *)
(* changed since the last call.                                            *)

InitPoll ==
  /\ ServicesStarted
  /\ QueueSize = MaxQueue
  /\ LossLimit = MaxLost
  /\ PulseWidths = StaleWidths
  /\ GapWidths = StaleWidths
  /\ edgesLeft = MaxEdges
  /\ resetsLeft = 0

NextPoll == Poll \/ Dispatch

SpecPoll == InitPoll /\ [][NextPoll]_vars

-----------------------------------------------------------------------------
(* The main logic FSM from construction, the decoder left as constructed *)
InitMain ==
  /\ InitMainLogicFSM
  /\ ServicesStarted
  /\ QueueSize = MaxQueue
  /\ LossLimit = 0
  /\ LastInputState = 0
  /\ PulseWidths = {}
  /\ GapWidths = {}
  /\ edgesLeft = 0
  /\ resetsLeft = 0

NextMain ==
  \/ CommandRetrieved
  \/ TimerExpires
  \/ TapeDetected
  \/ BeaconDetected
  \/ BeaconLost
  \/ DispatchMain

SpecMain == InitMain /\ [][NextMain]_vars

(* The main logic FSM with a queue that holds up to MaxAlignQueue events   *)
(* and no beacon event checker: every ES_BEACON_DETECTED in the queue was  *)
(* posted by RunMainLogicFSM itself.                                       *)
CommandQueued ==
  \E byte \in CommandBytes :
    /\ Len(mainQueue) < MaxAlignQueue
    /\ mainQueue' = PostMainLogicFSM(mainQueue, Event("ES_COMMAND_RETRIEVED", byte))
    /\ UNCHANGED <<MainLogicState, MotorCommand, ActiveTimers, BeaconInputPin, issued,
                   leftOver, morseVars, encVars, dirVars>>

(* The beacon input goes high; the event that reports the rise is left    *)
(* out, so that the queue holds no ES_BEACON_DETECTED but the FSM's own.   *)
BeaconInView ==
  /\ ~BeaconInputPin
  /\ BeaconInputPin' = TRUE
  /\ UNCHANGED <<MainLogicState, MotorCommand, ActiveTimers, mainQueue, issued, leftOver,
                 morseVars, encVars, dirVars>>

NextAlign == CommandQueued \/ TimerExpires \/ BeaconInView \/ BeaconLost \/ DispatchMain

SpecAlign == InitMain /\ [][NextAlign]_vars

(* The encoder service alone: Timer3, the encoder's edges, the two         *)
(* interrupt routines and the service's event handler                      *)
InitEncoder ==
  /\ InitMorseElementsService
  /\ MainLogicAtRest
  /\ EncoderConfigured
  /\ DirectionCheckerAtStart
  /\ QueueSize = MaxQueue
  /\ LossLimit = 0
  /\ LastInputState = 0
  /\ PulseWidths = {}
  /\ GapWidths = {}
  /\ edgesLeft = 0
  /\ resetsLeft = 0

NextEncoder ==
  \/ InitEncoderService
  \/ TimerTick
  \/ EncoderEdge
  \/ InputCaptureISR
  \/ Timer3ISR
  \/ PrintTimerExpires
  \/ RunEncoderService

SpecEncoder == InitEncoder /\ [][NextEncoder]_vars

(* The direction event checker and the three services that take the       *)
(* events it posts to all                                                  *)
NextDirection ==
  \/ DirectionInputChanges
  \/ Check4DirectionChange
  \/ Dispatch
  \/ DispatchMain
  \/ RunEncoderService

SpecDirection == InitMain /\ [][NextDirection]_vars

(* The keystroke event checker and the three services that take the       *)
(* events it posts to all                                                  *)
NextKeystroke ==
  \/ KeyArrives
  \/ Check4Keystroke
  \/ Dispatch
  \/ DispatchMain
  \/ RunEncoderService

SpecKeystroke == InitMain /\ [][NextKeystroke]_vars

(* The same machine with the framework's guarantees: a queued event is     *)
(* eventually dispatched and a running timer eventually expires and posts  *)
(* its timeout. Commands, tape and beacon events may stop arriving.        *)
SpecMainLive ==
  /\ InitMain
  /\ [][NextMain]_vars
  /\ WF_vars(DispatchMain)
  /\ SF_vars(TimerExpires)


-----------------------------------------------------------------------------
(* Vocabulary of the properties *)

(* This step is a dispatch: the head of the queue is taken (a post only    *)
(* lengthens the queue, a dispatch never does).                            *)
Dispatching == ~trapped /\ queue # <<>> /\ Len(queue') <= Len(queue) /\ queue' # queue

ThisEvent == Head(queue)

(* The events the dispatched run posted *)
Posted == SubSeq(queue', Len(queue), Len(queue'))

CalStates == {"CalWaitForRise", "CalWaitForFall"}

PostCalStates == {"EOC_WaitRise", "EOC_WaitFall", "DecodeWaitFall", "DecodeWaitRise"}

QueuedTypes == {queue[i].EventType : i \in 1..Len(queue)}

Min(a, b) == IF a <= b THEN a ELSE b

(* A falling edge is being processed in CalWaitForFall: TestCalibration runs *)
CalSampleStep ==
  Dispatching /\ CurrentState = "CalWaitForFall" /\ ThisEvent.EventType = "ES_FALLING_EDGE"

(* The width of the pulse that ends with the edge being dispatched *)
PulseWidthNow == (ThisEvent.EventParam - TimeOfLastRise + Modulus) % Modulus

(* The width of the gap that ends with the edge being dispatched *)
GapWidthNow == (ThisEvent.EventParam - TimeOfLastFall + Modulus) % Modulus

-----------------------------------------------------------------------------
(* C1: with no sample stored (FirstDelta = 0, as after construction or a   *)
(* Reset) a positive first sample a is only stored; with a stored, a       *)
(* positive second sample b with b >= 3a or a >= 3b converges: it posts    *)
(* CalibrationComplete and sets LengthOfDot to min(a, b).                  *)
C1_ContrastingPairConverges ==
  [][CalSampleStep =>
       LET a == FirstDelta
           b == PulseWidthNow
       IN /\ (a = 0 /\ b > 0) =>
               (FirstDelta' = b /\ Posted = <<>> /\ LengthOfDot' = LengthOfDot)
          /\ (a > 0 /\ b > 0 /\ (b >= 3 * a \/ a >= 3 * b)) =>
               (/\ Posted = <<CalibrationComplete>>
                /\ LengthOfDot' = Min(a, b)
                /\ ~trapped')]_vars

(* Samples 310 then 90 have converged on 90 *)
C1_Witness ==
  /\ PulseWidths = {90, 310}
  /\ FirstDelta = 310
  /\ LengthOfDot = 90
  /\ "ES_CALIBRATION_COMPLETE" \in QueuedTypes

-----------------------------------------------------------------------------
(* C2: when every pulse has the same width a > 0 and every edge of the     *)
(* train has reached the queue, calibration has not converged however many *)
(* pulses were sampled: the machine is in a calibration state, LengthOfDot *)
(* is unset and no CalibrationComplete was posted.                         *)
C2_UniformNeverConverges ==
  (Cardinality(PulseWidths) = 1 /\ PulseWidths \subseteq SampleWidths /\ edgesLost = 0) =>
    /\ CurrentState \in CalStates \cup {"InitMorseElements"}
    /\ LengthOfDot = 0
    /\ ~convergedSinceReset
    /\ "ES_CALIBRATION_COMPLETE" \notin QueuedTypes
    /\ ~trapped

(* A uniform train of three pulses has been sampled to the end *)
C2_Witness ==
  /\ Cardinality(PulseWidths) = 1
  /\ edgesLost = 0
  /\ PulseWidths \subseteq SampleWidths
  /\ edgesLeft = 0
  /\ queue = <<>>
  /\ CurrentState = "CalWaitForRise"
  /\ FirstDelta \in PulseWidths
  /\ printed = <<"F">>

-----------------------------------------------------------------------------
(* C3: a pulse of width w at dot length d > 0, with p = floor(100*w/d), is *)
(* reported as a dot iff p <= 150, as a dash iff p >= 250 and as a bad     *)
(* pulse otherwise; at d = 100 the widths 150, 151, 249, 250 give dot, bad *)
(* pulse, bad pulse, dash.                                                 *)
C3_PulseClassification ==
  [][(Dispatching /\ CurrentState = "DecodeWaitFall"
        /\ ThisEvent.EventType = "ES_FALLING_EDGE" /\ LengthOfDot > 0) =>
       LET w == PulseWidthNow
           p == (100 * w) \div LengthOfDot
       IN /\ (printed' = <<".">>) <=> (p <= 150)
          /\ (printed' = <<"-">>) <=> (p >= 250)
          /\ (printed' = <<"X">>) <=> (p > 150 /\ p < 250)
          /\ Posted = <<>>
          /\ LengthOfDot = 100 =>
               /\ w = 150 => printed' = <<".">>
               /\ w = 151 => printed' = <<"X">>
               /\ w = 249 => printed' = <<"X">>
               /\ w = 250 => printed' = <<"-">>]_vars

(* A pulse of 249% of the dot length has been reported as a bad pulse *)
C3_Witness ==
  /\ LengthOfDot = 100
  /\ PulseWidths = {249}
  /\ CurrentState = "DecodeWaitRise"
  /\ printed = <<"X">>

-----------------------------------------------------------------------------
(* C4: a gap of width w at dot length d > 0, with p = floor(100*w/d), is   *)
(* an intra-character gap (no output) iff p <= 150, an end of character    *)
(* iff 250 <= p <= 350, an end of word iff p >= 650 and a bad gap          *)
(* otherwise; at d = 100 the widths 150, 151, 249, 250, 350, 351, 649, 650 *)
(* give intra gap, bad, bad, end of character, end of character, bad, bad, *)
(* end of word.                                                            *)
IntraGapOut == printed' = <<>> /\ Posted = <<>>

EndOfCharacterOut == printed' = <<" ">> /\ Posted = <<EOCDetected>>

EndOfWordOut == printed' = <<"   ">> /\ Posted = <<EOWDetected>>

BadGapOut == printed' = <<"?">> /\ Posted = <<>>

C4_GapClassification ==
  [][(Dispatching /\ CurrentState \in {"DecodeWaitRise", "EOC_WaitRise"}
        /\ ThisEvent.EventType = "ES_RISING_EDGE" /\ LengthOfDot > 0) =>
       LET w == GapWidthNow
           p == (100 * w) \div LengthOfDot
       IN /\ IntraGapOut <=> (p <= 150)
          /\ EndOfCharacterOut <=> (p >= 250 /\ p <= 350)
          /\ EndOfWordOut <=> (p >= 650)
          /\ BadGapOut <=> ((p > 150 /\ p < 250) \/ (p > 350 /\ p < 650))
          /\ LengthOfDot = 100 =>
               /\ w = 150 => IntraGapOut
               /\ w = 151 => BadGapOut
               /\ w = 249 => BadGapOut
               /\ w = 250 => EndOfCharacterOut
               /\ w = 350 => EndOfCharacterOut
               /\ w = 351 => BadGapOut
               /\ w = 649 => BadGapOut
               /\ w = 650 => EndOfWordOut]_vars

(* A gap of 351% of the dot length has been reported as a bad gap *)
C4_Witness ==
  /\ LengthOfDot = 100
  /\ GapWidths = {351}
  /\ CurrentState = "DecodeWaitFall"
  /\ edgesLeft = 0
  /\ printed = <<"?">>

-----------------------------------------------------------------------------
(* C5, as claimed: a Reset (ES_DB_BUTTON_DOWN) processed in any state      *)
(* leaves the machine in CalWaitForRise with FirstDelta cleared.           *)
ResetStep == Dispatching /\ ThisEvent.EventType = "ES_DB_BUTTON_DOWN"

C5_ResetFromAnyState ==
  [][ResetStep => (CurrentState' = "CalWaitForRise" /\ FirstDelta' = 0)]_vars

-----------------------------------------------------------------------------
(* C6, as claimed: once a Reset has taken effect the machine leaves the    *)
(* calibration states (CalWaitForRise to EOC_WaitRise) only after          *)
(* TestCalibration has converged again, on samples taken after that Reset; *)
(* a CalibrationComplete posted before the Reset does not take the machine *)
(* out of calibration.                                                     *)
LeavesCalibration ==
  Dispatching /\ CurrentState = "CalWaitForRise" /\ CurrentState' = "EOC_WaitRise"

C6_NoStaleCompletionAfterReset ==
  [][LeavesCalibration => convergedSinceReset]_vars

-----------------------------------------------------------------------------
(* C8, as claimed: a falling edge processed in CalWaitForFall takes the    *)
(* machine to CalWaitForRise and posts CalibrationComplete exactly when    *)
(* the sample converges, and that CalibrationComplete, processed while the *)
(* machine is still calibrating, takes it to EOC_WaitRise.                 *)
C8_ConvergenceLeadsToEndWaitRise ==
  [][/\ CalSampleStep => CurrentState' = "CalWaitForRise"
     /\ (Dispatching /\ ThisEvent.EventType = "ES_CALIBRATION_COMPLETE"
           /\ CurrentState \in CalStates) => CurrentState' = "EOC_WaitRise"]_vars

-----------------------------------------------------------------------------
(* C9, as claimed, for the runs in which no Reset arrives at all: once a   *)
(* converging calibration has set LengthOfDot, no step changes it.         *)
C9_DotLengthImmutableOnceSet ==
  [][(convergedSinceReset /\ resetsLeft = MaxResets) =>
       LengthOfDot' = LengthOfDot]_vars

-----------------------------------------------------------------------------
(* C10: in every state in which a classifier can run (EOC_WaitRise,        *)
(* EOC_WaitFall, DecodeWaitFall, DecodeWaitRise) LengthOfDot has been set  *)
(* and is greater than 0, and no classification has divided by zero.       *)
C10_DotLengthSetWhenClassifying ==
  CurrentState \in PostCalStates => (LengthOfDot > 0 /\ ~trapped)

(* A pulse has been classified as a dash against a dot length of 30 *)
C10_Witness ==
  /\ CurrentState = "DecodeWaitRise"
  /\ printed = <<"-">>
  /\ LengthOfDot = 30
  /\ ~trapped

-----------------------------------------------------------------------------
(* C7: what a run on an edge lets an observer of the calibration see:      *)
(* whether CalibrationComplete is posted and with which LengthOfDot.       *)
CalibrationOutcomes(outs) ==
  {[trap |-> o.trap, complete |-> Posts(o, CalibrationComplete),
    dot |-> IF Posts(o, CalibrationComplete) THEN o.m.LengthOfDot ELSE 0] : o \in outs}

SameOutcomeAsFresh ==
  CalibrationOutcomes(RunMorseElementsSM(Machine, ThisEvent))
    = CalibrationOutcomes(RunMorseElementsSM(twin.m, ThisEvent))

TwinEdgeStep ==
  Dispatching /\ twin.on /\ ~twin.complete /\ ThisEvent.EventType \in EdgeTypes

(* C7, as claimed: after a Reset processed in any state, every edge fed to *)
(* the machine has the calibration outcome it has on a freshly started     *)
(* machine fed the same edges.                                             *)
C7_AnyResetEquivalentToFresh ==
  [][TwinEdgeStep => SameOutcomeAsFresh]_vars

-----------------------------------------------------------------------------
(* The gap ended by the rising edge being dispatched, in percent of the    *)
(* dot length                                                              *)
GapPercentNow == (100 * GapWidthNow) \div LengthOfDot

(* A rising edge is being processed in DecodeWaitRise: the gap is classified *)
DecodeGapStep ==
  /\ Dispatching /\ CurrentState = "DecodeWaitRise"
  /\ ThisEvent.EventType = "ES_RISING_EDGE" /\ LengthOfDot > 0

(* C11, as claimed: a rising edge processed in DecodeWaitRise takes the    *)
(* machine to EOC_WaitRise when the gap it ends is an end of word          *)
(* (650% of the dot length or more) and to DecodeWaitFall for every other  *)
(* gap.                                                                    *)
C11_EndOfWordReturnsToEndWaitRise ==
  [][DecodeGapStep =>
       IF GapPercentNow >= 650
       THEN CurrentState' = "EOC_WaitRise"
       ELSE CurrentState' = "DecodeWaitFall"]_vars

-----------------------------------------------------------------------------
(* C12, as claimed: a rising edge processed in EOC_WaitRise that ends an   *)
(* end-of-character gap (250% to 350% of the dot length) posts             *)
(* ES_EOC_DETECTED and moves to EOC_WaitFall, and that event, reaching the *)
(* machine in EOC_WaitRise or EOC_WaitFall, finds it in EOC_WaitFall and   *)
(* takes it to DecodeWaitFall.                                             *)
C12_EndOfCharacterStartsDecoding ==
  [][/\ (Dispatching /\ CurrentState = "EOC_WaitRise" /\ LengthOfDot > 0
           /\ ThisEvent.EventType = "ES_RISING_EDGE"
           /\ GapPercentNow >= 250 /\ GapPercentNow <= 350) =>
          (Posted = <<EOCDetected>> /\ CurrentState' = "EOC_WaitFall")
     /\ (Dispatching /\ ThisEvent = EOCDetected
           /\ CurrentState \in {"EOC_WaitRise", "EOC_WaitFall"}) =>
          (CurrentState = "EOC_WaitFall" /\ CurrentState' = "DecodeWaitFall")]_vars

-----------------------------------------------------------------------------
(* The state/event pairs of the transition table, with the self-posted     *)
(* ES_CALIBRATION_COMPLETE that the table's CalWaitFall row sends to       *)
(* CalWaitForRise.                                                         *)
ListedPairs ==
  {<<"InitMorseElements", "ES_INIT">>,
   <<"CalWaitForRise", "ES_RISING_EDGE">>,
   <<"CalWaitForRise", "ES_CALIBRATION_COMPLETE">>,
   <<"CalWaitForFall", "ES_FALLING_EDGE">>,
   <<"EOC_WaitRise", "ES_RISING_EDGE">>,
   <<"EOC_WaitRise", "ES_DB_BUTTON_DOWN">>,
   <<"EOC_WaitFall", "ES_FALLING_EDGE">>,
   <<"EOC_WaitFall", "ES_EOC_DETECTED">>,
   <<"EOC_WaitFall", "ES_DB_BUTTON_DOWN">>,
   <<"DecodeWaitFall", "ES_FALLING_EDGE">>,
   <<"DecodeWaitFall", "ES_DB_BUTTON_DOWN">>,
   <<"DecodeWaitRise", "ES_RISING_EDGE">>,
   <<"DecodeWaitRise", "ES_DB_BUTTON_DOWN">>}

UnlistedStep ==
  Dispatching /\ <<CurrentState, ThisEvent.EventType>> \notin ListedPairs

(* C13: processing an event whose type the table does not list for the     *)
(* current state changes none of CurrentState, FirstDelta, LengthOfDot,    *)
(* TimeOfLastRise and TimeOfLastFall, posts nothing, prints nothing and    *)
(* does not fail.                                                          *)
C13_UnlistedEventIsNoOp ==
  [][UnlistedStep =>
       /\ Machine' = Machine
       /\ Posted = <<>>
       /\ printed' = <<>>
       /\ ~trapped']_vars

(* The Reset has been consumed while calibrating (LengthOfDot never set)   *)
(* and the last event processed in CalWaitForFall was ignored: a stored    *)
(* first sample is still there and nothing was printed.                    *)
C13_Witness ==
  /\ CurrentState = "CalWaitForFall"
  /\ printed = <<>>
  /\ FirstDelta > 0
  /\ LengthOfDot = 0
  /\ resetsLeft = 0
  /\ "ES_DB_BUTTON_DOWN" \notin QueuedTypes
  /\ ~trapped

-----------------------------------------------------------------------------
(* The ticks from the earlier timestamp a to the later timestamp b of a    *)
(* timer that wraps at Modulus                                             *)
Elapsed(a, b) == IF b >= a THEN b - a ELSE b - a + Modulus

PulseOutFor(p) == IF p <= 150 THEN <<".">> ELSE IF p >= 250 THEN <<"-">> ELSE <<"X">>

GapOutFor(p) ==
  IF p <= 150 THEN <<>>
  ELSE IF p >= 250 /\ p <= 350 THEN <<" ">>
  ELSE IF p >= 650 THEN <<"   ">>
  ELSE <<"?">>

(* C14: the calibration sample, the pulse width and the gap width are the  *)
(* ticks elapsed modulo 2^16 between the two timestamps, also when the     *)
(* timer wrapped in between: from 65535 to 5 the sample stored is 6, and   *)
(* pulses and gaps are classified by that width.                           *)
C14_WidthsModuloTimer ==
  [][/\ (CalSampleStep /\ Posted = <<>> /\ ~trapped') =>
          /\ FirstDelta' = Elapsed(TimeOfLastRise, ThisEvent.EventParam)
          /\ FirstDelta' \in 0..(Modulus - 1)
          /\ (TimeOfLastRise = Modulus - 1 /\ ThisEvent.EventParam = 5) => FirstDelta' = 6
     /\ (Dispatching /\ CurrentState = "DecodeWaitFall" /\ LengthOfDot > 0
           /\ ThisEvent.EventType = "ES_FALLING_EDGE") =>
          /\ printed' =
               PulseOutFor((100 * Elapsed(TimeOfLastRise, ThisEvent.EventParam))
                             \div LengthOfDot)
          /\ (TimeOfLastRise = Modulus - 1 /\ ThisEvent.EventParam = 5) =>
               printed' = PulseOutFor(600 \div LengthOfDot)
     /\ (Dispatching /\ CurrentState \in {"DecodeWaitRise", "EOC_WaitRise"}
           /\ LengthOfDot > 0 /\ ThisEvent.EventType = "ES_RISING_EDGE") =>
          /\ printed' =
               GapOutFor((100 * Elapsed(TimeOfLastFall, ThisEvent.EventParam))
                           \div LengthOfDot)
          /\ (TimeOfLastFall = Modulus - 1 /\ ThisEvent.EventParam = 5) =>
               printed' = GapOutFor(600 \div LengthOfDot)]_vars

(* A pulse from 65535 to 5 has been classified, at dot length 2, as the    *)
(* dash that its width 6 is.                                               *)
C14_Witness ==
  /\ CurrentState = "DecodeWaitRise"
  /\ TimeOfLastRise = Modulus - 1
  /\ TimeOfLastFall = 5
  /\ LengthOfDot = 2
  /\ printed = <<"-">>

-----------------------------------------------------------------------------
(* C15, as claimed: while the pulses sampled have the one width a > 0 the  *)
(* calibration does not converge (the first is stored, each further one    *)
(* leaves FirstDelta = a), and the first pulse of a width b with b >= 3a   *)
(* or a >= 3b converges with LengthOfDot = min(a, b).                      *)
C15_ContrastAfterWarmUpConverges ==
  [][CalSampleStep =>
       LET a == FirstDelta
           b == PulseWidthNow
       IN /\ (a > 0 /\ b = a) =>
               (Posted = <<>> /\ FirstDelta' = a /\ LengthOfDot' = LengthOfDot)
          /\ (a > 0 /\ (b >= 3 * a \/ a >= 3 * b)) =>
               (/\ Posted = <<CalibrationComplete>>
                /\ LengthOfDot' = Min(a, b)
                /\ ~trapped')]_vars

-----------------------------------------------------------------------------
(* The start event or a Reset is being processed in a state that handles it *)
CalibrationStartStep ==
  /\ Dispatching
  /\ \/ CurrentState = "InitMorseElements" /\ ThisEvent.EventType = "ES_INIT"
     \/ HandlesButtonDown(CurrentState) /\ ThisEvent.EventType = "ES_DB_BUTTON_DOWN"

(* C16: calibration starts (after construction, after a Reset) with        *)
(* FirstDelta = 0 and only a calibration sample changes that; a sample     *)
(* taken with FirstDelta = 0 is stored as FirstDelta without converging;   *)
(* a later sample s > 0 with 33 < floor(100*FirstDelta/s) < 300 posts no   *)
(* CalibrationComplete, leaves LengthOfDot alone and becomes FirstDelta.   *)
C16_FirstSampleStoredWindowShifts ==
  [][/\ CalibrationStartStep => (FirstDelta' = 0 /\ CurrentState' = "CalWaitForRise")
     /\ (Dispatching /\ ~CalSampleStep /\ FirstDelta = 0) => FirstDelta' = 0
     /\ (CalSampleStep /\ FirstDelta = 0) =>
          /\ FirstDelta' = PulseWidthNow
          /\ Posted = <<>>
          /\ LengthOfDot' = LengthOfDot
          /\ ~trapped'
     /\ (CalSampleStep /\ FirstDelta > 0 /\ PulseWidthNow > 0
           /\ (100 * FirstDelta) \div PulseWidthNow > 33
           /\ (100 * FirstDelta) \div PulseWidthNow < 300) =>
          /\ Posted = <<>>
          /\ LengthOfDot' = LengthOfDot
          /\ FirstDelta' = PulseWidthNow
          /\ ~trapped']_vars

(* Samples 4 then 11 (ratio 36) have not converged: the window has shifted *)
(* to 11 and no dot length is set. The second pulse rose after two gaps    *)
(* and a first pulse of 4 ticks.                                           *)
C16_Witness ==
  /\ PulseWidths = {4, 11}
  /\ FirstDelta = 11
  /\ \E g1 \in CalGapWidths, g2 \in CalGapWidths :
       TimeOfLastRise = (StartTime + g1 + 4 + g2) % Modulus
  /\ TimeOfLastFall = (TimeOfLastRise + 11) % Modulus
  /\ LengthOfDot = 0
  /\ CurrentState = "CalWaitForRise"
  /\ printed = <<"F">>
  /\ resetsLeft = MaxResets
  /\ queue = <<>>

-----------------------------------------------------------------------------
(* A falling edge is being processed in DecodeWaitFall: the pulse is       *)
(* classified                                                              *)
PulseStep ==
  /\ Dispatching /\ CurrentState = "DecodeWaitFall"
  /\ ThisEvent.EventType = "ES_FALLING_EDGE" /\ LengthOfDot > 0

(* A rising edge is being processed in EOC_WaitRise or DecodeWaitRise: the *)
(* gap is classified                                                       *)
GapStep ==
  /\ Dispatching /\ CurrentState \in {"EOC_WaitRise", "DecodeWaitRise"}
  /\ ThisEvent.EventType = "ES_RISING_EDGE" /\ LengthOfDot > 0

(* C17: a pulse reported bad leaves the machine in DecodeWaitRise as a dot *)
(* or a dash does, a gap reported bad leaves it where an intra-character   *)
(* gap does (EOC_WaitFall from EOC_WaitRise, DecodeWaitFall from           *)
(* DecodeWaitRise); neither changes LengthOfDot or FirstDelta, posts an    *)
(* event or fails.                                                         *)
C17_AmbiguousInputIsNonFatal ==
  [][/\ PulseStep =>
          /\ CurrentState' = "DecodeWaitRise"
          /\ printed' = <<"X">> =>
               /\ LengthOfDot' = LengthOfDot /\ FirstDelta' = FirstDelta
               /\ Posted = <<>> /\ ~trapped'
     /\ (GapStep /\ printed' \in {<<>>, <<"?">>}) =>
          /\ CurrentState' =
               IF CurrentState = "EOC_WaitRise" THEN "EOC_WaitFall" ELSE "DecodeWaitFall"
          /\ LengthOfDot' = LengthOfDot /\ FirstDelta' = FirstDelta
          /\ Posted = <<>> /\ ~trapped']_vars

(* At dot length 100 a pulse of 200 (bad) has been followed by a gap of    *)
(* 200, which was classified in its turn (bad gap) and left the machine in *)
(* DecodeWaitFall.                                                         *)
C17_Witness ==
  /\ LengthOfDot = 100
  /\ FirstDelta = 100
  /\ PulseWidths = {200}
  /\ TimeOfLastFall = (ClassifyStart + 200) % Modulus
  /\ TimeOfLastRise = (ClassifyStart + 400) % Modulus
  /\ CurrentState = "DecodeWaitFall"
  /\ printed = <<"?">>
  /\ resetsLeft = MaxResets
  /\ ~trapped

-----------------------------------------------------------------------------
(* C18: a classified pulse is reported by exactly one of dot, dash and bad *)
(* pulse; a classified gap of at most 150% of the dot length (an           *)
(* intra-character gap) is reported by nothing at all, and every other gap *)
(* by exactly one of end of character, end of word and bad gap.            *)
C18_OneOutputPerClassification ==
  [][/\ PulseStep =>
          /\ Len(printed') = 1
          /\ printed'[1] \in {".", "-", "X"}
          /\ Posted = <<>>
     /\ GapStep =>
          IF GapPercentNow <= 150
          THEN printed' = <<>> /\ Posted = <<>>
          ELSE /\ Len(printed') = 1
               /\ printed'[1] \in {" ", "   ", "?"}
               /\ Len(Posted) <= 1
               /\ (Posted = <<EOCDetected>>) <=> (printed' = <<" ">>)
               /\ (Posted = <<EOWDetected>>) <=> (printed' = <<"   ">>)]_vars

(* At dot length 100 a pulse of 150 has been reported as a dot and the gap *)
(* of 150 after it, an intra-character gap, by nothing.                    *)
C18_Witness ==
  /\ LengthOfDot = 100
  /\ PulseWidths = {150}
  /\ TimeOfLastFall = (ClassifyStart + 150) % Modulus
  /\ TimeOfLastRise = (ClassifyStart + 300) % Modulus
  /\ CurrentState = "DecodeWaitFall"
  /\ printed = <<>>
  /\ queue = <<>>
  /\ resetsLeft = MaxResets

-----------------------------------------------------------------------------
IsEdge(e) == e.EventType \in EdgeTypes

(* The edges processed since the start of the recording, in order *)
EdgesProcessed == SelectSeq(transcript.events, IsEdge)

(* The widths of the pulses and gaps those edges ended, the first pulse    *)
(* having begun at ClassifyStart                                           *)
WidthsProcessed ==
  [i \in 1..Len(EdgesProcessed) |->
     Elapsed(IF i = 1 THEN ClassifyStart ELSE EdgesProcessed[i - 1].EventParam,
             EdgesProcessed[i].EventParam)]

NoResetProcessed ==
  \A i \in 1..Len(transcript.events) :
    transcript.events[i].EventType # "ES_DB_BUTTON_DOWN"

(* The train pulse 100, gap 100, pulse 100, gap 300, a pulse, gap 700 has  *)
(* been processed from the calibrated machine waiting in DecodeWaitFall    *)
TrainProcessed ==
  /\ transcript.recording
  /\ NoResetProcessed
  /\ Len(WidthsProcessed) = 6
  /\ SubSeq(WidthsProcessed, 1, 4) = <<100, 100, 100, 300>>
  /\ WidthsProcessed[6] = 700

(* C19, as claimed: at dot length 100 the train pulse 100, gap 100, pulse  *)
(* 100, gap 300, then (after the pulse that must separate two gaps) gap    *)
(* 700 prints exactly dot, dot, end of character, end of word.             *)
C19_TrainPrintsFourOutputs ==
  TrainProcessed => transcript.text = <<".", ".", " ", "   ">>

(* C19, amended: at dot length 100, from DecodeWaitFall, the train pulse   *)
(* 100, gap 100, pulse 100, gap 300, pulse 100, gap 700 prints exactly     *)
(* dot, dot, end of character, dot, end of word, with no bad pulse and no  *)
(* bad gap.                                                                *)
C19_TrainPrintsMarksAndGaps ==
  (TrainProcessed /\ WidthsProcessed[5] = 100) =>
    transcript.text = <<".", ".", " ", ".", "   ">>

(* That train has been processed to its last edge and the end of word      *)
(* printed.                                                                *)
C19_Witness ==
  /\ TrainProcessed
  /\ WidthsProcessed[5] = 100
  /\ printed = <<"   ">>
  /\ Len(transcript.text) = 5
  /\ CurrentState = "DecodeWaitFall"

-----------------------------------------------------------------------------
(* CheckMorseEvents is posting an edge event *)
Detecting ==
  /\ Len(queue') = Len(queue) + 1
  /\ queue'[Len(queue')].EventType \in EdgeTypes

(* The calibration ratio of the sample ended by the edge being dispatched *)
SampleRatioNow == (100 * FirstDelta) \div Elapsed(TimeOfLastRise, ThisEvent.EventParam)

(* C20: an edge event carries the timer's reading at its detection; when   *)
(* the event is processed, however much later, that reading is what is     *)
(* stored as TimeOfLastRise or TimeOfLastFall, and the calibration sample, *)
(* the pulse class and the gap class are those of the ticks elapsed        *)
(* between two such readings.                                              *)
C20_WidthsFromCapturedTimestamps ==
  [][/\ Detecting => queue'[Len(queue')].EventParam = Time'
     /\ (Dispatching /\ ThisEvent.EventType = "ES_RISING_EDGE"
           /\ CurrentState \in {"CalWaitForRise", "EOC_WaitRise", "DecodeWaitRise"}) =>
          TimeOfLastRise' = ThisEvent.EventParam
     /\ (Dispatching /\ ThisEvent.EventType = "ES_FALLING_EDGE"
           /\ CurrentState \in {"CalWaitForFall", "EOC_WaitFall", "DecodeWaitFall"}) =>
          TimeOfLastFall' = ThisEvent.EventParam
     /\ (CalSampleStep /\ FirstDelta > 0
           /\ Elapsed(TimeOfLastRise, ThisEvent.EventParam) > 0) =>
          IF SampleRatioNow <= 33 \/ SampleRatioNow >= 300
          THEN /\ Posted = <<CalibrationComplete>>
               /\ LengthOfDot' =
                    Min(FirstDelta, Elapsed(TimeOfLastRise, ThisEvent.EventParam))
          ELSE /\ Posted = <<>>
               /\ FirstDelta' = Elapsed(TimeOfLastRise, ThisEvent.EventParam)
     /\ PulseStep =>
          printed' = PulseOutFor((100 * Elapsed(TimeOfLastRise, ThisEvent.EventParam))
                                   \div LengthOfDot)
     /\ GapStep =>
          printed' = GapOutFor((100 * Elapsed(TimeOfLastFall, ThisEvent.EventParam))
                                 \div LengthOfDot)]_vars

(* A pulse of 100 ticks has been classified as a dash at dot length 30     *)
(* after the next rising edge had already been detected: the timer read    *)
(* more than the falling edge's timestamp when that edge was processed.    *)
C20_Witness ==
  /\ CurrentState = "DecodeWaitRise"
  /\ LengthOfDot = 30
  /\ TimeOfLastFall = (TimeOfLastRise + 100) % Modulus
  /\ printed = <<"-">>
  /\ Time # TimeOfLastFall
  /\ queue # <<>>
  /\ queue[1].EventType = "ES_RISING_EDGE"
  /\ queue[1].EventParam = Time

-----------------------------------------------------------------------------
(* C21, as claimed: whatever the state, processing a Rising event leaves   *)
(* TimeOfLastRise equal to the event's timestamp and processing a Falling  *)
(* event leaves TimeOfLastFall equal to the event's timestamp.             *)
C21_EdgeMemoryWrittenInEveryState ==
  [][/\ (Dispatching /\ ThisEvent.EventType = "ES_RISING_EDGE") =>
          TimeOfLastRise' = ThisEvent.EventParam
     /\ (Dispatching /\ ThisEvent.EventType = "ES_FALLING_EDGE") =>
          TimeOfLastFall' = ThisEvent.EventParam]_vars

(* C21, amended: a Rising event processed in CalWaitForRise, EOC_WaitRise  *)
(* or DecodeWaitRise leaves TimeOfLastRise equal to its timestamp, a       *)
(* Falling event processed in CalWaitForFall, EOC_WaitFall or              *)
(* DecodeWaitFall leaves TimeOfLastFall equal to its timestamp; every      *)
(* other event, a Reset included, and an edge processed in any other state *)
(* leave both stored times as they were.                                   *)
C21_EdgeMemoryWrittenByListedEdges ==
  [][Dispatching =>
       /\ TimeOfLastRise' =
            IF ThisEvent.EventType = "ES_RISING_EDGE" /\ CurrentState \in RiseStates
            THEN ThisEvent.EventParam ELSE TimeOfLastRise
       /\ TimeOfLastFall' =
            IF ThisEvent.EventType = "ES_FALLING_EDGE" /\ CurrentState \in FallStates
            THEN ThisEvent.EventParam ELSE TimeOfLastFall]_vars

(* A Reset has taken effect after a completed calibration and the times of *)
(* the last pulse's edges are still stored.                                *)
C21_Witness ==
  /\ CurrentState = "CalWaitForRise"
  /\ FirstDelta = 0
  /\ LengthOfDot = 30
  /\ ~convergedSinceReset
  /\ resetsLeft = 0
  /\ TimeOfLastFall = (TimeOfLastRise + 100) % Modulus
  /\ ~trapped

-----------------------------------------------------------------------------
(* A width is being computed: TestCalibration, CharacterizePulse or        *)
(* CharacterizeSpace runs in the step                                      *)
WidthStep ==
  /\ Dispatching
  /\ \/ ThisEvent.EventType = "ES_FALLING_EDGE" /\ CurrentState \in {"CalWaitForFall", "DecodeWaitFall"}
     \/ ThisEvent.EventType = "ES_RISING_EDGE" /\ CurrentState \in {"EOC_WaitRise", "DecodeWaitRise"}

(* C22: the machine leaves InitMorseElements only by processing ES_INIT    *)
(* (every other event type leaves the constructed machine as it is), no    *)
(* step takes it back to InitMorseElements, and whenever a width is        *)
(* computed both TimeOfLastRise and TimeOfLastFall have been stored by a   *)
(* processed edge event (the one being processed included).                *)
C22_InitLeftOnceWidthsFromWrittenEdges ==
  [][/\ (CurrentState = "InitMorseElements" /\ CurrentState' # "InitMorseElements") =>
          (Dispatching /\ ThisEvent.EventType = "ES_INIT")
     /\ \A type \in EventTypes \ {"ES_INIT"} :
          RunMorseElementsSM(ConstructedMachine, Event(type, Time)) =
            {Outcome(ConstructedMachine, <<>>, <<>>)}
     /\ (CurrentState # "InitMorseElements") => (CurrentState' # "InitMorseElements")
     /\ WidthStep => (written'.rise /\ written'.fall)]_vars

(* The first width has been computed: it is the stored first sample, and   *)
(* both edge times were stored on the way.                                 *)
C22_Witness ==
  /\ CurrentState = "CalWaitForRise"
  /\ FirstDelta = 30
  /\ LengthOfDot = 0
  /\ written = BothWritten
  /\ TimeOfLastFall = (TimeOfLastRise + 30) % Modulus
  /\ resetsLeft = MaxResets

-----------------------------------------------------------------------------
(* C23, as claimed: a CalibrationComplete is always processed in           *)
(* CalWaitForRise and an ES_EOC_DETECTED always in EOC_WaitFall, whatever   *)
(* edge events were queued before the step that posted it; neither is ever *)
(* processed in a state that does not list it.                             *)
C23_SelfPostedEventsFindTheirState ==
  [][Dispatching =>
       /\ (ThisEvent.EventType = "ES_CALIBRATION_COMPLETE") => CurrentState = "CalWaitForRise"
       /\ (ThisEvent.EventType = "ES_EOC_DETECTED") => CurrentState = "EOC_WaitFall"
       /\ (ThisEvent.EventType \in {"ES_CALIBRATION_COMPLETE", "ES_EOC_DETECTED"}) =>
            <<CurrentState, ThisEvent.EventType>> \in ListedPairs]_vars

-----------------------------------------------------------------------------
(* C24, as claimed: whenever TestCalibration evaluates the ratio           *)
(* 100 * FirstDelta / SecondDelta (a sample arrives while a first sample   *)
(* is stored) SecondDelta, the width of the pulse just ended, is not 0.    *)
C24_NoDivisionByZero ==
  [][(CalSampleStep /\ FirstDelta # 0) => PulseWidthNow # 0]_vars

-----------------------------------------------------------------------------
(* The machine about to run TestCalibration on the sample being dispatched *)
(* with the two widths exchanged: the sample stored, the stored one new    *)
SwappedSample ==
  [Machine EXCEPT !.FirstDelta = PulseWidthNow,
                  !.TimeOfLastRise = 0, !.TimeOfLastFall = FirstDelta]

SwappedConverges == \A o \in TestCalibration(SwappedSample) : Posts(o, CalibrationComplete)

PairStep == CalSampleStep /\ FirstDelta > 0 /\ PulseWidthNow > 0

(* C25, as claimed: a pair of positive samples (a, b) converges exactly    *)
(* when the pair (b, a) does, and both then set the same LengthOfDot.      *)
C25_ConvergenceSymmetric ==
  [][PairStep =>
       /\ (Posted = <<CalibrationComplete>>) <=> SwappedConverges
       /\ (Posted = <<CalibrationComplete>>) =>
            \A o \in TestCalibration(SwappedSample) : o.m.LengthOfDot = LengthOfDot']_vars

(* C25, amended: a pair of positive samples (a, b) converges exactly when  *)
(* 100a < 34b (the integer ratio is 33 or less) or a >= 3b, the pair       *)
(* (b, a) exactly when 100b < 34a or b >= 3a, and a pair that converges    *)
(* sets LengthOfDot to min(a, b); so both orders converge, on the same     *)
(* LengthOfDot, whenever b >= 3a or a >= 3b, and a pair with               *)
(* 100a < 34b < 102a converges in that order only.                         *)
C25_ConvergenceSymmetricForContrast ==
  [][PairStep =>
       LET a == FirstDelta
           b == PulseWidthNow
       IN /\ (Posted = <<CalibrationComplete>>) <=> (100 * a < 34 * b \/ a >= 3 * b)
          /\ SwappedConverges <=> (100 * b < 34 * a \/ b >= 3 * a)
          /\ (Posted = <<CalibrationComplete>>) => LengthOfDot' = Min(a, b)
          /\ \A o \in TestCalibration(SwappedSample) :
               Posts(o, CalibrationComplete) => o.m.LengthOfDot = Min(a, b)
          /\ ~trapped']_vars

(* Samples 18 then 53 have converged on 18 although 53 < 3 * 18 *)
C25_Witness ==
  /\ PulseWidths = {18, 53}
  /\ FirstDelta = 18
  /\ LengthOfDot = 18
  /\ "ES_CALIBRATION_COMPLETE" \in QueuedTypes
  /\ resetsLeft = MaxResets

-----------------------------------------------------------------------------
(* C26, as claimed: an ES_EOW_DETECTED processed in EOC_WaitFall takes the *)
(* machine to DecodeWaitFall, as an ES_EOC_DETECTED does.                  *)
C26_EndOfWordStartsDecoding ==
  [][(Dispatching /\ CurrentState = "EOC_WaitFall"
        /\ ThisEvent.EventType \in {"ES_EOC_DETECTED", "ES_EOW_DETECTED"}) =>
       CurrentState' = "DecodeWaitFall"]_vars

-----------------------------------------------------------------------------
(* The lines CharacterizePulse prints *)
PulseOutputs == {".", "-", "X"}

PulseOutputStep == \E i \in 1..Len(printed') : printed'[i] \in PulseOutputs

ClassifiesPulse ==
  Dispatching /\ CurrentState = "DecodeWaitFall" /\ ThisEvent.EventType = "ES_FALLING_EDGE"

(* C27, as claimed: a dot, a dash or a bad pulse is printed only by a      *)
(* falling edge processed in DecodeWaitFall, and only when a gap has been  *)
(* classified as an end of character since calibration last completed or   *)
(* was last reset.                                                         *)
C27_PulseOutputOnlyAfterCharacterGap ==
  [][(Dispatching /\ PulseOutputStep) => (ClassifiesPulse /\ charGapSeen)]_vars

-----------------------------------------------------------------------------
(* The edge events in the queue, oldest first *)
QueuedEdges == SelectSeq(queue, IsEdge)

LevelOf(e) == IF e.EventType = "ES_RISING_EDGE" THEN 1 ELSE 0

(* C28: a CheckMorseEvents call that finds the level changed posts exactly *)
(* one event, ES_RISING_EDGE when the new level is high and                *)
(* ES_FALLING_EDGE when it is low, stamped with the current time, and      *)
(* returns true (the event joins the queue unless the queue is full); a    *)
(* call that finds it unchanged posts nothing and returns false; no edge   *)
(* is posted in any other way, so, as long as the queue has dropped no     *)
(* edge, the edge events in the queue alternate in polarity and the newest *)
(* has the polarity of LastInputState.                                     *)
C28_OneEdgePerLevelChange ==
  [][/\ (LastInputState' # LastInputState) =>
          /\ queue' = PostMorseElementsService(queue,
                         Event(IF LastInputState' = 1 THEN "ES_RISING_EDGE"
                                                      ELSE "ES_FALLING_EDGE", Time'))
          /\ (Len(queue) < QueueSize) => Len(queue') = Len(queue) + 1
          /\ ReturnVal'
     /\ (LastInputState' = LastInputState /\ ReturnVal' # ReturnVal) =>
          (queue' = queue /\ ~ReturnVal')
     /\ (Len(queue') > Len(queue) /\ IsEdge(queue'[Len(queue')])) =>
          LastInputState' # LastInputState
     /\ edgesLost' = 0 =>
          /\ \A i \in 1..(Len(QueuedEdges') - 1) :
               LevelOf(QueuedEdges'[i]) # LevelOf(QueuedEdges'[i + 1])
          /\ (QueuedEdges' # <<>>) =>
               LevelOf(QueuedEdges'[Len(QueuedEdges')]) = LastInputState']_vars

(* Three edges are queued and the last call found the level unchanged *)
C28_Witness ==
  /\ Len(QueuedEdges) = 3
  /\ edgesLost = 0
  /\ ~ReturnVal
  /\ LastInputState = LevelOf(QueuedEdges[3])
  /\ edgesLeft < MaxEdges

-----------------------------------------------------------------------------
(* The main logic FSM *)

(* The step is a run of RunMainLogicFSM on the event at the queue's head *)
MainDispatching ==
  mainQueue # <<>> /\ mainQueue' # mainQueue /\ Len(mainQueue') <= Len(mainQueue)

MovingStates == {"SimpleMoving", "SearchingForTape", "AligningWithBeacon"}

(* C29: whenever the main logic FSM is in Stopped the last motor command   *)
(* issued is MotorCommandWrapper(0, 0, FORWARD, FORWARD).                  *)
C29_StoppedMeansMotorsStopped ==
  MainLogicState = "Stopped" => MotorCommand = StopCommand

(* A tape search has been ended by a detection: the FSM is back in Stopped *)
(* with the search timer still running.                                    *)
C29_Witness ==
  /\ MainLogicState = "Stopped"
  /\ "TAPE_SEARCH_TIMER" \in ActiveTimers
  /\ MotorCommand = StopCommand
  /\ issued = <<StopCommand>>
  /\ mainQueue = <<>>

(* C30: processing ES_COMMAND_RETRIEVED with CMD_STOP, in Stopped or in    *)
(* any of the three moving states, issues the stop command (and no other   *)
(* motor command) and leaves the FSM in Stopped in that same step; it      *)
(* starts no timer and posts nothing.                                      *)
C30_StopCommandStopsInOneStep ==
  [][(/\ MainDispatching
      /\ Head(mainQueue).EventType = "ES_COMMAND_RETRIEVED"
      /\ Head(mainQueue).EventParam = CMD_STOP) =>
       /\ MainLogicState' = "Stopped"
       /\ MotorCommand' = StopCommand
       /\ issued' = <<StopCommand>>
       /\ ActiveTimers' = ActiveTimers
       /\ mainQueue' = Tail(mainQueue)]_vars

(* A rotation has been cut short: the FSM is in Stopped with the stop      *)
(* command just issued while the move timer is still running and no        *)
(* timeout is queued.                                                      *)
C30_Witness ==
  /\ MainLogicState = "Stopped"
  /\ "SIMPLE_MOVE_TIMER" \in ActiveTimers
  /\ issued = <<StopCommand>>
  /\ MotorCommand = StopCommand
  /\ \A i \in 1..Len(mainQueue) : mainQueue[i].EventType # "ES_TIMEOUT"

-----------------------------------------------------------------------------
(* C31, as claimed: whenever the FSM is in SimpleMoving, SearchingForTape  *)
(* or AligningWithBeacon it is eventually in Stopped again, given only     *)
(* that queued events are dispatched and running timers expire.            *)
C31_MovesAreTimeBounded ==
  (MainLogicState \in MovingStates) ~> (MainLogicState = "Stopped")

-----------------------------------------------------------------------------
(* C32, as claimed: a SIMPLE_MOVE_TIMER timeout that RunMainLogicFSM takes *)
(* in SimpleMoving (and that therefore ends the move) was posted by the    *)
(* timer the move in progress started, never by a timer, or queued while a *)
(* move was in progress, that an earlier move left behind.                 *)
C32_OnlyOwnTimerEndsMove ==
  [][(/\ MainDispatching
      /\ MainLogicState = "SimpleMoving"
      /\ IsTimeout(Head(mainQueue), "SIMPLE_MOVE_TIMER"))
     => leftOver.queued = 0]_vars

-----------------------------------------------------------------------------
(* The timer whose timeout a moving state waits for, and the detection     *)
(* event it waits for (SimpleMoving waits for none)                        *)
OwnTimer(state) ==
  CASE state = "SimpleMoving" -> "SIMPLE_MOVE_TIMER"
    [] state = "SearchingForTape" -> "TAPE_SEARCH_TIMER"
    [] state = "AligningWithBeacon" -> "BEACON_ALIGN_TIMER"
    [] OTHER -> "none"

OwnDetection(state) ==
  CASE state = "SearchingForTape" -> "ES_TAPE_DETECTED"
    [] state = "AligningWithBeacon" -> "ES_BEACON_DETECTED"
    [] OTHER -> "none"

(* ev is CMD_STOP, the state's own timeout or its own detection *)
EndsMove(state, ev) ==
  \/ ev.EventType = "ES_COMMAND_RETRIEVED" /\ ev.EventParam = CMD_STOP
  \/ ev.EventType = "ES_TIMEOUT" /\ ev.EventParam = OwnTimer(state)
  \/ ev.EventType = OwnDetection(state)

(* C33: in SimpleMoving, SearchingForTape and AligningWithBeacon every     *)
(* event other than CMD_STOP, the state's own timeout and the state's own  *)
(* detection event is dropped: the state, the motor command and the        *)
(* running timers stay as they are, no motor command is issued and nothing *)
(* is posted.                                                              *)
C33_MovingStatesDropOtherEvents ==
  [][(/\ MainDispatching
      /\ MainLogicState \in MovingStates
      /\ ~EndsMove(MainLogicState, Head(mainQueue)))
     => /\ MainLogicState' = MainLogicState
        /\ MotorCommand' = MotorCommand
        /\ ActiveTimers' = ActiveTimers
        /\ issued' = <<>>
        /\ mainQueue' = Tail(mainQueue)]_vars

(* C33 witness: SimpleMoving with the motors still running after a call of *)
(* RunMainLogicFSM that issued no motor command (an event was dropped),    *)
(* with a new motion command and then another state's timeout queued next. *)
C33_Witness ==
  /\ MainLogicState = "SimpleMoving"
  /\ MotorCommand # StopCommand
  /\ issued = <<>>
  /\ Len(mainQueue) = 2
  /\ mainQueue[1] = Event("ES_COMMAND_RETRIEVED", CMD_SEARCH_TAPE)
  /\ mainQueue[2] = Event("ES_TIMEOUT", "TAPE_SEARCH_TIMER")

-----------------------------------------------------------------------------
(* C34, as claimed: CMD_ALIGN_BEACON taken in Stopped with the beacon      *)
(* input high issues no motor command, starts no timer, posts              *)
(* ES_BEACON_DETECTED to the FSM and sets AligningWithBeacon; with the     *)
(* input low it commands the spin and starts BEACON_ALIGN_TIMER; and the   *)
(* FSM is in Stopped when it has processed the ES_BEACON_DETECTED it       *)
(* posted to itself.                                                       *)
AlignCommandTaken ==
  /\ MainDispatching
  /\ MainLogicState = "Stopped"
  /\ Head(mainQueue) = Event("ES_COMMAND_RETRIEVED", CMD_ALIGN_BEACON)

AlignBeaconHighStep ==
  (AlignCommandTaken /\ BeaconInputPin)
    => /\ MainLogicState' = "AligningWithBeacon"
       /\ MotorCommand' = StopCommand
       /\ issued' = <<>>
       /\ ActiveTimers' = ActiveTimers
       /\ mainQueue' = Append(Tail(mainQueue), Event("ES_BEACON_DETECTED", 0))

AlignBeaconLowStep ==
  (AlignCommandTaken /\ ~BeaconInputPin)
    => /\ MainLogicState' = "AligningWithBeacon"
       /\ MotorCommand' = Motor("FullSpeed", "FullSpeed", "FORWARD", "REVERSE")
       /\ issued' = <<MotorCommand'>>
       /\ ActiveTimers' = ActiveTimers \cup {"BEACON_ALIGN_TIMER"}
       /\ mainQueue' = Tail(mainQueue)

SelfPostedBeaconStep ==
  (MainDispatching /\ Head(mainQueue).EventType = "ES_BEACON_DETECTED")
    => MainLogicState' = "Stopped"

C34_AlignWithBeaconInView ==
  [][AlignBeaconHighStep /\ AlignBeaconLowStep /\ SelfPostedBeaconStep]_vars

-----------------------------------------------------------------------------
(* A rollover flag is pending and not yet counted: T3IF is set and neither *)
(* routine stands between its RolloverCounter++ and its clearing of T3IF   *)
FlagUncounted == T3IF /\ icPC # "clearT3" /\ t3PC # "clearT3"

(* Every rollover flag raised so far is either counted once or still pending *)
FlagsCountedOnce ==
  RolloverCounter + (IF FlagUncounted THEN 1 ELSE 0) = flagsRaised

(* While InputCaptureISR is between its test of T3IF and its write of      *)
(* CapturedTime, RolloverCounter changes only by the routine's own         *)
(* increment.                                                              *)
CombineUndisturbed ==
  (icPC \in {"test", "inc", "clearT3", "combine"} /\ RolloverCounter' # RolloverCounter)
    => (icPC = "inc" /\ icPC' = "clearT3" /\ t3PC' = t3PC)

(* C35: under every interleaving of InputCaptureISR and Timer3ISR each     *)
(* rollover flag increments RolloverCounter exactly once, and              *)
(* InputCaptureISR combines the count it tested and incremented with the   *)
(* captured value, with no update of RolloverCounter by Timer3ISR in       *)
(* between.                                                                *)
C35_RolloverCountedOnce ==
  [][/\ FlagsCountedOnce'
     /\ CombineUndisturbed
     /\ (icPC = "combine" /\ icPC' = "post")
          => CapturedTime' = <<RolloverCounter, capturedTimer16>>]_vars

(* C35 witness: InputCaptureISR interrupted Timer3ISR before its critical  *)
(* section, counted the pending rollover for a capture taken just after    *)
(* it and cleared T3IF; Timer3ISR, resumed, stands at its test of T3IF     *)
(* with the flag clear and the rollover counted once.                      *)
C35_Witness ==
  /\ t3PC = "test"
  /\ ~T3IF
  /\ flagsRaised = 1
  /\ RolloverCounter = 1
  /\ CapturedTime = <<1, 0>>
  /\ icPC = "idle"

-----------------------------------------------------------------------------
(* RunEncoderService takes an ES_NEW_ENCODER_EDGE event from its queue *)
EdgeHandled ==
  /\ encQueue # <<>>
  /\ encQueue' = Tail(encQueue)
  /\ Head(encQueue).EventType = "ES_NEW_ENCODER_EDGE"

(* C36, as claimed: every ES_NEW_ENCODER_EDGE event is handled with the    *)
(* capture time of the capture that posted it, so that two captures give   *)
(* two different times and the second event never sees a time lapse of 0.  *)
C36_EdgeHandledWithItsOwnCapture ==
  [][EdgeHandled => /\ LastCapturedTime' = Head(encQueue).captured
                    /\ lastLapse' # U32(0)]_vars

-----------------------------------------------------------------------------
(* A call of Check4DirectionChange that is not the first one *)
LaterCall == dirCalls' = dirCalls + 1 /\ lastSample # -1

DirChange == Event("ES_DIR_CHANGE", 0)

(* C37: a call of Check4DirectionChange posts ES_DIR_CHANGE, once, to the  *)
(* queue of every service and returns true exactly when the input was low  *)
(* at the previous call and is high now; when the input is high at both    *)
(* calls, low at both, or went from high to low, it posts nothing and      *)
(* returns false.                                                          *)
C37_OnePostPerRise ==
  [][LaterCall =>
       IF lastSample = 0 /\ RB8 = 1
       THEN /\ dirPosted' = dirPosted + 1
            /\ DirReturnVal'
            /\ queue' = PostMorseElementsService(queue, DirChange)
            /\ mainQueue' = PostMainLogicFSM(mainQueue, DirChange)
            /\ encQueue' = PostEncoderService(encQueue, DirChange)
       ELSE /\ dirPosted' = dirPosted
            /\ ~DirReturnVal'
            /\ UNCHANGED <<queue, mainQueue, encQueue>>]_vars

(* C37 witness: after six calls or more exactly two events are posted,    *)
(* the second by the call just made, which saw the input high after a call *)
(* that saw it low, and that event is the newest in each of the three      *)
(* queues; the other calls posted nothing.                                 *)
C37_Witness ==
  /\ dirCalls >= 6
  /\ dirPosted = 2
  /\ lastSample = 1
  /\ RB8 = 1
  /\ DirReturnVal
  /\ queue # <<>> /\ queue[Len(queue)] = DirChange
  /\ mainQueue # <<>> /\ mainQueue[Len(mainQueue)] = DirChange
  /\ encQueue # <<>> /\ encQueue[Len(encQueue)] = DirChange

====
